---- MODULE Spec2Model ----
(***************************************************************************)
(* Context Assembly Engine of second-opinion: the path sandbox            *)
(* (expandPath), the budget allocator (baseBudgets, addFilesWithBudget,   *)
(* getBudgetWithSpillover) and the bundler orchestration (bundleContext). *)
(*                                                                         *)
(* A path is a sequence of segment names counted from the filesystem root. *)
(* The filesystem is a fixed table of nodes (files, directories, symbolic  *)
(* links); everything the bundler does with it (normalize, realpath, stat, *)
(* readdir, read) is computed from that table.                             *)
(***************************************************************************)
EXTENDS Integers, Sequences, FiniteSets, TLC

(***************************************************************************)
(* Bounds of the model                                                     *)
(***************************************************************************)
MaxInclude == 2
MaxRemaining == 120

(***************************************************************************)
(* Program constants                                                       *)
(***************************************************************************)
MAX_EXPAND_DEPTH == 10

CATEGORY_PRIORITY_ORDER ==
  <<"explicit", "session", "git", "dependency", "dependent", "test", "type">>

Categories == {CATEGORY_PRIORITY_ORDER[i] : i \in 1..Len(CATEGORY_PRIORITY_ORDER)}

\* BUDGET_ALLOCATION, in hundredths (0.15 -> 15)
BUDGET_ALLOCATION ==
  [c \in Categories |->
     CASE c = "explicit"   -> 15
       [] c = "session"    -> 30
       [] c = "git"        -> 10
       [] c = "dependency" -> 15
       [] c = "dependent"  -> 15
       [] c = "test"       -> 10
       [] c = "type"       -> 5]

(***************************************************************************)
(* The filesystem                                                          *)
(***************************************************************************)
projectPath == <<"proj">>
homedir == <<"home">>

NoPath == <<"ENOENT">>

Dir(p) ==
  [path |-> p, kind |-> "dir", target |-> <<>>, len |-> 0, readable |-> TRUE]
File(p, n) ==
  [path |-> p, kind |-> "file", target |-> <<>>, len |-> n, readable |-> TRUE]
Link(p, t) ==
  [path |-> p, kind |-> "link", target |-> t, len |-> 0, readable |-> TRUE]

\* a directory the process may neither list nor search (EACCES)
LockedDir(p) == [Dir(p) EXCEPT !.readable = FALSE]

\* The nodes, in directory-listing order. len is the length in characters
\* of the file's content as it stands after secret redaction.
FsNodes ==
  << Dir(<<"proj">>),
     Dir(<<"proj", "src">>),
     File(<<"proj", "src", "a.ts">>, 40),
     File(<<"proj", "src", "b.ts">>, 118),
     File(<<"proj", "src", "c.ts">>, 20),
     File(<<"proj", "src", ".hidden.ts">>, 8),
     Link(<<"proj", "src", "alias.ts">>, <<"proj", "src", "a.ts">>),
     Link(<<"proj", "src", "keylink">>, <<"home", ".ssh", "id_rsa">>),
     Link(<<"proj", "src", "extlink">>, <<"ext", "e.ts">>),
     Link(<<"proj", "src", "dangling">>, <<"home", "gone">>),
     Dir(<<"proj", "src", "node_modules">>),
     File(<<"proj", "src", "node_modules", "m.js">>, 12),
     Dir(<<"proj", "src", "sub">>),
     File(<<"proj", "src", "sub", "s.ts">>, 24),
     File(<<"proj", "src", "sub", "credentials.json">>, 16),
     File(<<"proj", ".env">>, 16),
     File(<<"proj", "secrets.json">>, 12),
     LockedDir(<<"proj", "locked">>),
     File(<<"proj", "locked", "x.ts">>, 8),
     Dir(<<"proj", "deep">>),
     File(<<"proj", "deep", "d.ts">>, 8),
     Link(<<"proj", "deep", "loop">>, <<"proj", "deep">>),
     Link(<<"proj", "deep", "self">>, <<"proj", "deep", "self">>),
     Dir(<<"proj", "lib">>),
     File(<<"proj", "lib", "main.ts">>, 8),
     File(<<"proj", "lib", "self.ts">>, 8),
     Link(<<"proj", "lib", "foo.ts">>, <<"ext", "e.ts">>),
     File(<<"proj", "lib", "foo.js">>, 8),
     Dir(<<"proj", "lib", "utils">>),
     File(<<"proj", "lib", "utils", "index.ts">>, 8),
     Dir(<<"home">>),
     Dir(<<"home", ".ssh">>),
     File(<<"home", ".ssh", "id_rsa">>, 40),
     Dir(<<"ext">>),
     File(<<"ext", "e.ts">>, 32) >>

Range(seq) == {seq[i] : i \in 1..Len(seq)}

FsNodeSet == Range(FsNodes)

FsPaths == {n.path : n \in FsNodeSet}

Node(p) == CHOOSE n \in FsNodeSet : n.path = p

IsPrefix(p, q) == Len(p) <= Len(q) /\ SubSeq(q, 1, Len(p)) = p

(***************************************************************************)
(* path.normalize: "." is dropped, ".." removes the segment before it      *)
(***************************************************************************)
RECURSIVE NormalizeFrom(_, _)
NormalizeFrom(done, rest) ==
  IF rest = <<>> THEN done
  ELSE LET s == Head(rest) IN
       IF s = "." THEN NormalizeFrom(done, Tail(rest))
       ELSE IF s = ".."
            THEN NormalizeFrom(IF done = <<>> THEN <<>>
                               ELSE SubSeq(done, 1, Len(done) - 1), Tail(rest))
            ELSE NormalizeFrom(Append(done, s), Tail(rest))

normalize(p) == NormalizeFrom(<<>>, p)

(***************************************************************************)
(* fs.realpathSync: resolve every symbolic link on the way; NoPath when a  *)
(* component is missing, may not be searched, or the links do not end      *)
(***************************************************************************)
MaxSymlinks == 8

RECURSIVE RealpathFrom(_, _, _)
RealpathFrom(done, rest, fuel) ==
  IF rest = <<>> THEN done
  ELSE LET next == Append(done, Head(rest))
           Through(node) ==
             IF node.kind = "link"
             THEN IF fuel = 0 THEN NoPath
                  ELSE RealpathFrom(<<>>, normalize(node.target \o Tail(rest)),
                                    fuel - 1)
             ELSE IF node.kind = "file" /\ Tail(rest) # <<>> THEN NoPath
             ELSE IF ~node.readable /\ Tail(rest) # <<>> THEN NoPath
             ELSE RealpathFrom(next, Tail(rest), fuel)
       IN IF next \notin FsPaths THEN NoPath ELSE Through(Node(next))

\* the real path of every node of the table
RealPaths == [p \in FsPaths |-> RealpathFrom(<<>>, p, MaxSymlinks)]

realpathSync(p) ==
  LET Lookup(known) ==
        IF p \in DOMAIN known THEN known[p]
        ELSE RealpathFrom(<<>>, p, MaxSymlinks)
  IN Lookup(RealPaths)

existsSync(p) == realpathSync(p) # NoPath

\* stat of a path that realpathSync returned
StatKind(real) == IF real = <<>> THEN "dir" ELSE Node(real).kind

\* whether readdirSync of a directory that realpathSync returned succeeds
Listable(real) == real = <<>> \/ Node(real).readable

\* readdirSync: the names of the entries of a directory, in listing order
readdirSync(dir) ==
  LET entries == SelectSeq(FsNodes,
                   LAMBDA n : Len(n.path) = Len(dir) + 1 /\ IsPrefix(dir, n.path))
  IN [i \in 1..Len(entries) |-> entries[i].path[Len(dir) + 1]]

(***************************************************************************)
(* SENSITIVE_PATH_PATTERNS over the segment names of the model: a pattern  *)
(* of the form /[/\\]name[/\\]?/ or /[/\\]name/ matches when some segment  *)
(* begins with name; a pattern anchored with $ matches on the last segment *)
(***************************************************************************)
SensitiveAnywhere ==
  {".git", ".gitignore", ".ssh", ".gnupg", ".gpg", ".aws", ".kube",
   "id_rsa", "id_rsa.pub", "id_ed25519", "id_ecdsa", "terraform.tfstate"}

SensitiveAtEnd ==
  {".pem", ".key", ".netrc", ".npmrc", ".pypirc", "credentials.json",
   ".credentials", "secrets.json", "secrets.yaml", ".env", ".env.local",
   "prod.tfvars", "secret.yaml", ".bash_history", ".zsh_history"}

isSensitivePath(filePath) ==
  LET normalized == normalize(filePath) IN
  \/ \E i \in 1..Len(normalized) : normalized[i] \in SensitiveAnywhere
  \/ /\ normalized # <<>>
     /\ normalized[Len(normalized)] \in SensitiveAtEnd

(***************************************************************************)
(* isWithinProject: the real path (or, when it cannot be resolved, the     *)
(* normalized path) is the real project root or lies beneath it            *)
(***************************************************************************)
isWithinProject(filePath, project) ==
  LET OrNormalized(real, p) == IF real # NoPath THEN real ELSE normalize(p)
      realFile == OrNormalized(realpathSync(filePath), filePath)
      realProject == OrNormalized(realpathSync(project), project)
  IN IsPrefix(realProject, realFile)

(***************************************************************************)
(* A requested path: relative to the project, absolute, or under "~/"      *)
(***************************************************************************)
Rel(s)   == [base |-> "rel",  segs |-> s]
Abs(s)   == [base |-> "abs",  segs |-> s]
Tilde(s) == [base |-> "home", segs |-> s]

\* expandTilde, path.isAbsolute/path.join and path.normalize of expandPath
ExpandedPath(inputPath) ==
  normalize(CASE inputPath.base = "home" -> homedir \o inputPath.segs
              [] inputPath.base = "rel"  -> projectPath \o inputPath.segs
              [] OTHER                   -> inputPath.segs)

Blocked(p, r) == [path |-> p, reason |-> r]

Max(a, b) == IF a >= b THEN a ELSE b

\* What a call of expandPath yields: result.files and result.blocked, or an
\* exception (threw). deepest is the largest depth at which a call went past
\* the depth guard (-1: none did) and capped the number of calls the guard
\* turned away.
NoResult ==
  [files |-> <<>>, blocked |-> <<>>, threw |-> FALSE, deepest |-> -1, capped |-> 0]

Capped == [NoResult EXCEPT !.capped = 1]

Threw == [NoResult EXCEPT !.threw = TRUE]

Visited(depth) == [NoResult EXCEPT !.deepest = depth]

BlockedResult(p, r, depth) ==
  [NoResult EXCEPT !.blocked = <<Blocked(p, r)>>, !.deepest = depth]

FileResult(p, depth) == [NoResult EXCEPT !.files = <<p>>, !.deepest = depth]

\* result.files.push(...), result.blocked.push(...); an exception of either
\* part leaves the call
Join(a, b) ==
  IF a.threw \/ b.threw THEN Threw
  ELSE [files |-> a.files \o b.files, blocked |-> a.blocked \o b.blocked,
        threw |-> FALSE, deepest |-> Max(a.deepest, b.deepest),
        capped |-> a.capped + b.capped]

\* entry.name.startsWith(".") for the names of the model
IsHidden(name) ==
  name \in {".hidden.ts", ".env", ".env.local", ".git", ".gitignore", ".ssh",
            ".gnupg", ".gpg", ".aws", ".kube", ".pem", ".key", ".netrc",
            ".npmrc", ".pypirc", ".credentials", ".bash_history",
            ".zsh_history"}

\* expandPath, lines 128-169, without the sensitivity check of the real path
PathOutcome_NoRealPathCheck(expandedPath, allowExternal) ==
  IF isSensitivePath(expandedPath) THEN "sensitive_path"
  ELSE IF ~existsSync(expandedPath) THEN "skip"
  ELSE
    LET realPath == realpathSync(expandedPath) IN
    IF ~allowExternal /\ ~isWithinProject(realPath, projectPath)
    THEN "outside_project_requires_allowExternalFiles"
    ELSE IF StatKind(realPath) = "file" THEN "file"
    ELSE IF ~Listable(realPath) THEN "throw"
    ELSE "dir"

\* expandPath, lines 128-169, without the project-bounds check
PathOutcome_NoBoundsCheck(expandedPath, allowExternal) ==
  IF isSensitivePath(expandedPath) THEN "sensitive_path"
  ELSE IF ~existsSync(expandedPath) THEN "skip"
  ELSE
    LET realPath == realpathSync(expandedPath) IN
    IF isSensitivePath(realPath) THEN "sensitive_path"
    ELSE IF StatKind(realPath) = "file" THEN "file"
    ELSE IF ~Listable(realPath) THEN "throw"
    ELSE "dir"

\* expandPath, lines 128-169, reporting a path that does not exist as blocked
PathOutcome_MissingBlocked(expandedPath, allowExternal) ==
  IF isSensitivePath(expandedPath) THEN "sensitive_path"
  ELSE IF ~existsSync(expandedPath)
       THEN "outside_project_requires_allowExternalFiles"
  ELSE
    LET realPath == realpathSync(expandedPath) IN
    IF isSensitivePath(realPath) THEN "sensitive_path"
    ELSE IF ~allowExternal /\ ~isWithinProject(realPath, projectPath)
         THEN "outside_project_requires_allowExternalFiles"
    ELSE IF StatKind(realPath) = "file" THEN "file"
    ELSE IF ~Listable(realPath) THEN "throw"
    ELSE "dir"

\* expandPath, lines 128-169: what becomes of a path once it is absolute and
\* normalized. "skip": the empty result is returned; a reason: the path is
\* blocked with it; "file", "dir": the type of the real path; "throw":
\* fs.readdirSync, called outside any try block, fails on a directory that
\* cannot be read.
PathOutcome(expandedPath, allowExternal) ==
  LET Resolved(realPath) ==
        IF isSensitivePath(realPath) THEN "sensitive_path"
        ELSE IF ~allowExternal /\ ~isWithinProject(realPath, projectPath)
             THEN "outside_project_requires_allowExternalFiles"
        ELSE IF StatKind(realPath) = "file" THEN "file"
        ELSE IF ~Listable(realPath) THEN "throw"
        ELSE "dir"
  IN IF isSensitivePath(expandedPath) THEN "sensitive_path"
     ELSE IF ~existsSync(expandedPath) THEN "skip"
     ELSE Resolved(realpathSync(expandedPath))

\* expandPath, lines 170-211: what becomes of an entry of a directory
EntryOutcome(fullPath, name, allowExternal) ==
  LET Resolved(entryRealPath) ==
        IF entryRealPath = NoPath THEN "skip"
        ELSE IF isSensitivePath(entryRealPath) THEN "sensitive_path"
        ELSE IF ~allowExternal /\ ~isWithinProject(entryRealPath, projectPath)
             THEN "outside_project_requires_allowExternalFiles"
        ELSE IF StatKind(entryRealPath) = "file" THEN "file"
        ELSE "dir"
  IN IF IsHidden(name) \/ name = "node_modules" THEN "skip"
     ELSE Resolved(realpathSync(fullPath))

\* the result of a call or of a loop iteration that does not list a directory
LeafResult(outcome, reported, real, depth) ==
  IF outcome = "skip" THEN Visited(depth)
  ELSE IF outcome = "file" THEN FileResult(real, depth)
  ELSE IF outcome = "throw" THEN Threw
  ELSE BlockedResult(reported, outcome, depth)

RECURSIVE JoinFrom(_, _)
JoinFrom(parts, i) ==
  IF i > Len(parts) THEN NoResult ELSE Join(parts[i], JoinFrom(parts, i + 1))

RECURSIVE expandAbs(_, _, _)

\* one iteration of the loop over the entries of a directory
ExpandEntry(fullPath, name, allowExternal, depth) ==
  LET Continue(outcome, entryRealPath) ==
        IF outcome = "dir" THEN expandAbs(entryRealPath, allowExternal, depth + 1)
        ELSE LeafResult(outcome, fullPath, entryRealPath, depth)
  IN Continue(EntryOutcome(fullPath, name, allowExternal), realpathSync(fullPath))

\* the loop over the entries of a directory (expandPath, lines 170-212)
ExpandEntries(realPath, allowExternal, depth) ==
  LET names == readdirSync(realPath)
      parts == [i \in 1..Len(names) |->
                  ExpandEntry(Append(realPath, names[i]), names[i],
                              allowExternal, depth)]
  IN JoinFrom(parts, 1)

\* expandPath whose depth guard lets one more level through
expandAbs_CapOffByOne(expandedPath, allowExternal, depth) ==
  LET Continue(outcome, realPath) ==
        IF outcome = "dir"
        THEN Join(Visited(depth), ExpandEntries(realPath, allowExternal, depth))
        ELSE LeafResult(outcome, expandedPath, realPath, depth)
  IN IF depth > MAX_EXPAND_DEPTH THEN Capped
     ELSE Continue(PathOutcome(expandedPath, allowExternal),
                   realpathSync(expandedPath))

\* expandPath once the input is an absolute, normalized path
expandAbs(expandedPath, allowExternal, depth) ==
  LET Continue(outcome, realPath) ==
        IF outcome = "dir"
        THEN Join(Visited(depth), ExpandEntries(realPath, allowExternal, depth))
        ELSE LeafResult(outcome, expandedPath, realPath, depth)
  IN IF depth >= MAX_EXPAND_DEPTH THEN Capped
     ELSE Continue(PathOutcome(expandedPath, allowExternal),
                   realpathSync(expandedPath))

expandPath(inputPath, allowExternal) ==
  expandAbs(ExpandedPath(inputPath), allowExternal, 0)

(***************************************************************************)
(* Token estimation and file entries                                       *)
(***************************************************************************)
\* Math.ceil(text.length / 4)
estimateTokens(len) == (len + 3) \div 4

Entry(p, c, t) == [path |-> p, category |-> c, tokenEstimate |-> t]

\* readFileEntry: the cached content when there is one (a non-empty string),
\* the content on disk otherwise; no entry when the read throws. The result
\* is a sequence of zero or one entries.
readFileEntry(filePath, category, cachedLen) ==
  IF cachedLen > 0
  THEN <<Entry(filePath, category, estimateTokens(cachedLen))>>
  ELSE LET Read(real) ==
             IF real = NoPath \/ StatKind(real) # "file" THEN <<>>
             ELSE <<Entry(filePath, category, estimateTokens(Node(real).len))>>
       IN Read(realpathSync(filePath))

RECURSIVE ReadAll(_, _)
ReadAll(paths, category) ==
  IF paths = <<>> THEN <<>>
  ELSE readFileEntry(Head(paths), category, 0) \o ReadAll(Tail(paths), category)

\* the paths of a list that are not in addedFiles, read as entries
RECURSIVE ReadNew(_, _, _)
ReadNew(paths, category, added) ==
  IF paths = <<>> THEN <<>>
  ELSE (IF Head(paths) \in added THEN <<>>
        ELSE readFileEntry(Head(paths), category, 0))
       \o ReadNew(Tail(paths), category, added)

\* Array.prototype.sort((a, b) => a.tokenEstimate - b.tokenEstimate), stable
RECURSIVE InsertByTokens(_, _)
InsertByTokens(e, sorted) ==
  IF sorted = <<>> THEN <<e>>
  ELSE IF e.tokenEstimate < Head(sorted).tokenEstimate THEN <<e>> \o sorted
  ELSE <<Head(sorted)>> \o InsertByTokens(e, Tail(sorted))

RECURSIVE SortByTokens(_)
SortByTokens(entries) ==
  IF entries = <<>> THEN <<>>
  ELSE InsertByTokens(entries[Len(entries)],
                      SortByTokens(SubSeq(entries, 1, Len(entries) - 1)))

(***************************************************************************)
(* Budget allocation                                                       *)
(***************************************************************************)
\* Math.floor(remainingBudget * BUDGET_ALLOCATION[c]); \div floors
BaseBudget(remainingBudget, c) == (remainingBudget * BUDGET_ALLOCATION[c]) \div 100

\* Math.floor(spilloverBudget * 0.5)
HalfSpillover(spill) == spill \div 2

\* getBudgetWithSpillover that forgets the unused part of the base budget
getBudgetWithSpillover_DropsUnused(baseBudget, spill, usedTokens) ==
  spill - HalfSpillover(spill)

\* getBudgetWithSpillover that leaves the granted bonus in the spillover
getBudgetWithSpillover_KeepsBonus(baseBudget, spill, usedTokens) ==
  Max(0, baseBudget - usedTokens) + spill

\* getBudgetWithSpillover: the spillover after a category has used usedTokens
getBudgetWithSpillover(baseBudget, spill, usedTokens) ==
  LET bonusBudget == HalfSpillover(spill)
      unusedFromBase == Max(0, baseBudget - usedTokens)
  IN unusedFromBase + (spill - bonusBudget)

\* every category is given the whole spillover
CategoryBudget_AllSpillover(category, baseBudget, spill) == baseBudget + spill

\* the budget bundleContext passes to addFilesWithBudget for a category
CategoryBudget(category, baseBudget, spill) ==
  IF category = "explicit" THEN baseBudget + spill
  ELSE IF category = "type" THEN baseBudget + spill
  ELSE baseBudget + HalfSpillover(spill)

Omitted(e, c, r) ==
  [path |-> e.path, category |-> c, tokenEstimate |-> e.tokenEstimate,
   reason |-> r]

\* the loop stops at the first file that does not fit: every later file is
\* omitted as well
AddOneFile_HardStop(file, category, budget, skipBoundsCheck, st) ==
  IF ~skipBoundsCheck /\ ~isWithinProject(file.path, projectPath)
  THEN [st EXCEPT !.omittedFiles = Append(@, Omitted(file, category, "outside_project")),
                  !.log = Append(@, "outside_project")]
  ELSE IF st.used + file.tokenEstimate > budget
          \/ \E i \in 1..Len(st.log) : st.log[i] = "budget_exceeded"
  THEN [st EXCEPT !.omittedFiles = Append(@, Omitted(file, category, "budget_exceeded")),
                  !.log = Append(@, "budget_exceeded")]
  ELSE IF file.path \notin st.addedFiles
  THEN [st EXCEPT !.files = Append(@, file),
                  !.addedFiles = @ \cup {file.path},
                  !.used = @ + file.tokenEstimate,
                  !.categories = [@ EXCEPT ![category] = @ + file.tokenEstimate],
                  !.totalTokens = @ + file.tokenEstimate,
                  !.log = Append(@, "added")]
  ELSE [st EXCEPT !.log = Append(@, "already_added")]

\* a file outside the project is passed over without an omittedFiles entry
AddOneFile_SilentOutside(file, category, budget, skipBoundsCheck, st) ==
  IF ~skipBoundsCheck /\ ~isWithinProject(file.path, projectPath)
  THEN [st EXCEPT !.log = Append(@, "outside_project")]
  ELSE IF st.used + file.tokenEstimate > budget
  THEN [st EXCEPT !.omittedFiles = Append(@, Omitted(file, category, "budget_exceeded")),
                  !.categoryOmissions =
                     IF category \in {"explicit", "session"}
                     THEN [@ EXCEPT ![category] =
                             [count |-> @.count + 1,
                              tokens |-> @.tokens + file.tokenEstimate]]
                     ELSE @,
                  !.log = Append(@, "budget_exceeded")]
  ELSE IF file.path \notin st.addedFiles
  THEN [st EXCEPT !.files = Append(@, file),
                  !.addedFiles = @ \cup {file.path},
                  !.used = @ + file.tokenEstimate,
                  !.categories = [@ EXCEPT ![category] = @ + file.tokenEstimate],
                  !.totalTokens = @ + file.tokenEstimate,
                  !.log = Append(@, "added")]
  ELSE [st EXCEPT !.log = Append(@, "already_added")]

\* the bounds check is left out for every category
AddOneFile_NoBoundsCheck(file, category, budget, skipBoundsCheck, st) ==
  IF st.used + file.tokenEstimate > budget
  THEN [st EXCEPT !.omittedFiles = Append(@, Omitted(file, category, "budget_exceeded")),
                  !.categoryOmissions =
                     IF category \in {"explicit", "session"}
                     THEN [@ EXCEPT ![category] =
                             [count |-> @.count + 1,
                              tokens |-> @.tokens + file.tokenEstimate]]
                     ELSE @,
                  !.log = Append(@, "budget_exceeded")]
  ELSE IF file.path \notin st.addedFiles
  THEN [st EXCEPT !.files = Append(@, file),
                  !.addedFiles = @ \cup {file.path},
                  !.used = @ + file.tokenEstimate,
                  !.categories = [@ EXCEPT ![category] = @ + file.tokenEstimate],
                  !.totalTokens = @ + file.tokenEstimate,
                  !.log = Append(@, "added")]
  ELSE [st EXCEPT !.log = Append(@, "already_added")]

\* One iteration of the loop of addFilesWithBudget. st carries the bundle
\* fields the loop updates, addedFiles, categoryOmissions, the tokens used so
\* far and, in log, what happened to each file of the list.
AddOneFile(file, category, budget, skipBoundsCheck, st) ==
  IF ~skipBoundsCheck /\ ~isWithinProject(file.path, projectPath)
  THEN [st EXCEPT !.omittedFiles = Append(@, Omitted(file, category, "outside_project")),
                  !.log = Append(@, "outside_project")]
  ELSE IF st.used + file.tokenEstimate > budget
  THEN [st EXCEPT !.omittedFiles = Append(@, Omitted(file, category, "budget_exceeded")),
                  !.categoryOmissions =
                     IF category \in {"explicit", "session"}
                     THEN [@ EXCEPT ![category] =
                             [count |-> @.count + 1,
                              tokens |-> @.tokens + file.tokenEstimate]]
                     ELSE @,
                  !.log = Append(@, "budget_exceeded")]
  ELSE IF file.path \notin st.addedFiles
  THEN [st EXCEPT !.files = Append(@, file),
                  !.addedFiles = @ \cup {file.path},
                  !.used = @ + file.tokenEstimate,
                  !.categories = [@ EXCEPT ![category] = @ + file.tokenEstimate],
                  !.totalTokens = @ + file.tokenEstimate,
                  !.log = Append(@, "added")]
  ELSE [st EXCEPT !.log = Append(@, "already_added")]

RECURSIVE addFilesWithBudget(_, _, _, _, _)
addFilesWithBudget(files, category, budget, skipBoundsCheck, st) ==
  IF files = <<>> THEN st
  ELSE addFilesWithBudget(Tail(files), category, budget, skipBoundsCheck,
                          AddOneFile(Head(files), category, budget,
                                     skipBoundsCheck, st))

(***************************************************************************)
(* Inputs of a bundling run                                                *)
(***************************************************************************)
Requests ==
  { Rel(<<"src", "a.ts">>),
    Rel(<<"src">>),
    Rel(<<"src", "keylink">>),
    Rel(<<"src", "extlink">>) }

\* requests that are made on their own
SoloRequests ==
  { Rel(<<"src", "..", ".env">>),
    Tilde(<<".ssh", "id_rsa">>),
    Rel(<<"src", "missing.ts">>),
    Rel(<<"src", "dangling">>),
    Rel(<<".env.local">>),
    Rel(<<"locked">>),
    Rel(<<"deep">>) }

IncludeLists ==
  UNION {[1..n -> Requests] : n \in 0..MaxInclude} \cup {<<r>> : r \in SoloRequests}

MaxTokensChoices == {100, 400}

Session(w, e, r, cache, convLen) ==
  [present |-> TRUE, filesWritten |-> w, filesEdited |-> e, filesRead |-> r,
   fileContents |-> cache, conversationLen |-> convLen]

NoSession ==
  [present |-> FALSE, filesWritten |-> <<>>, filesEdited |-> <<>>,
   filesRead |-> <<>>, fileContents |-> <<>>, conversationLen |-> 0]

\* What parseSession can return: the paths are the strings the session log
\* holds, fileContents the length of the content seen for some of them and
\* conversationLen the length of formatConversationContext's text.
SessionChoices ==
  { NoSession,
    Session(<< <<"proj", "src", "a.ts">> >>, <<>>,
            << <<"proj", ".env">>, <<"proj", "src", "a.ts">> >>,
            <<>>, 0),
    Session(<<>>, << <<"proj", "src", "alias.ts">> >>,
            << <<"ext", "e.ts">>, <<"proj", "src", "b.ts">>,
               <<"proj", "src", "c.ts">> >>,
            << [path |-> <<"ext", "e.ts">>, len |-> 32] >>, 480) }

\* sessionContext.fileContents.get(filePath): 0 when there is no content
RECURSIVE CachedLen(_, _)
CachedLen(cache, filePath) ==
  IF cache = <<>> THEN 0
  ELSE IF Head(cache).path = filePath THEN Head(cache).len
  ELSE CachedLen(Tail(cache), filePath)

GitChoices ==
  { <<>>,
    << <<"proj", "src", "c.ts">> >>,
    << <<"proj", "secrets.json">>, <<"proj", "src", "a.ts">> >> }

DependencyChoices ==
  { <<>>, << <<"proj", "src", "b.ts">>, <<"proj", "src", "sub", "s.ts">> >> }

DependentChoices ==
  { <<>>, << <<"proj", "src", "c.ts">>, <<"proj", "src", "sub", "s.ts">> >> }

TestChoices == { <<>>, << <<"proj", "src", "c.ts">> >> }

TypeChoices ==
  { <<>>, << <<"proj", "src", "b.ts">>, <<"proj", "src", "sub", "s.ts">> >> }

(***************************************************************************)
(* State of a bundleContext call                                           *)
(***************************************************************************)
VARIABLES
  pc,                 \* the step of bundleContext that runs next
  options,            \* includeFiles, allowExternalFiles, maxTokens, includeConversation
  sessionContext,     \* what parseSession returned
  bundle,             \* the ContextBundle under construction
  addedFiles,         \* the paths already pushed to bundle.files
  baseBudgets,        \* base budget of each category
  spilloverBudget,
  categoryOmissions,  \* count and tokens of budget omissions, explicit and session
  modifiedFiles,
  admission,          \* per category: the call of addFilesWithBudget and its effect
  compare,            \* two runs of the spillover bookkeeping, side by side
  redaction,          \* a text, its redaction and the redaction of the result
  imports,            \* an import being resolved, the index and a dependents query
  limiter,            \* the rate limiter, its clock and what it has answered
  review,             \* the executeReview calls made so far and the one running
  summary,            \* the egress summary built from the bundle
  consensus,          \* a getConsensusReview call and its two provider calls
  calls               \* two bundleContext calls that run side by side

vars == <<pc, options, sessionContext, bundle, addedFiles, baseBudgets,
          spilloverBudget, categoryOmissions, modifiedFiles, admission,
          compare, redaction, imports, limiter, review,
          summary, consensus, calls>>

\* the state outside the bundler
serviceVars == <<limiter, review, summary, consensus, calls>>

NoRedaction ==
  [step |-> 0, input |-> <<>>, once |-> <<>>, twice |-> <<>>,
   formatted |-> FALSE, conversationContext |-> <<>>]

NoImports == [step |-> 0]

\* no second bundleContext call is in sight
NoCalls == [step |-> 0]

\* getConsensusReview has not been called
NoConsensus == [step |-> 0]

\* buildEgressSummary has not been called
NoSummary ==
  [projectFilePaths |-> <<>>, externalFilePaths |-> <<>>, blockedFiles |-> <<>>]

\* executeReview has not been called
NoReview == [step |-> 0]

\* no limiter has been constructed
NoLimiter == [step |-> 0]

\* nothing outside the bundler is running
IdleServices ==
  /\ limiter = NoLimiter
  /\ review = NoReview
  /\ summary = NoSummary
  /\ consensus = NoConsensus
  /\ calls = NoCalls

NoCompare ==
  [remaining |-> 0, skipped |-> 0, next |-> 0, spillZero |-> 0, spillFull |-> 0,
   effZero |-> <<>>, effFull |-> <<>>]

NoAdmission ==
  [done |-> FALSE, candidates |-> <<>>, budget |-> 0, spillBefore |-> 0,
   spillAfter |-> 0, used |-> 0, log |-> <<>>, addedBefore |-> {},
   omittedBefore |-> <<>>, omittedAfter |-> <<>>]

Init ==
  /\ pc = "start"
  /\ sessionContext \in SessionChoices
  /\ \E inc \in IncludeLists, ext \in BOOLEAN, mt \in MaxTokensChoices,
        conv \in BOOLEAN :
       /\ sessionContext.conversationLen = 0 => conv
       /\ options = [includeFiles |-> inc, allowExternalFiles |-> ext,
                     maxTokens |-> mt, includeConversation |-> conv]
  /\ bundle = [conversationContext |-> 0, files |-> <<>>, omittedFiles |-> <<>>,
               totalTokens |-> 0, categories |-> [c \in Categories |-> 0],
               budgetWarnings |-> <<>>]
  /\ addedFiles = {}
  /\ baseBudgets = [c \in Categories |-> 0]
  /\ spilloverBudget = 0
  /\ categoryOmissions = [c \in {"explicit", "session"} |-> [count |-> 0, tokens |-> 0]]
  /\ modifiedFiles = <<>>
  /\ admission = [c \in Categories |-> NoAdmission]
  /\ compare = NoCompare
  /\ redaction = NoRedaction
  /\ imports = NoImports
  /\ IdleServices

\* bundleContext, lines 378-407: the conversation and the base budgets
Start ==
  /\ pc = "start"
  /\ LET conversationContext ==
           IF options.includeConversation /\ sessionContext.present
           THEN sessionContext.conversationLen ELSE 0
         conversationTokens == estimateTokens(conversationContext)
         remainingBudget == options.maxTokens - conversationTokens
     IN /\ bundle' = [bundle EXCEPT !.conversationContext = conversationContext,
                                    !.totalTokens = @ + conversationTokens]
        /\ baseBudgets' = [c \in Categories |-> BaseBudget(remainingBudget, c)]
  /\ spilloverBudget' = 0
  /\ pc' = "explicit"
  /\ UNCHANGED <<serviceVars, compare, redaction, imports, options, sessionContext, addedFiles, categoryOmissions,
                 modifiedFiles, admission>>

\* the admission of one category: addFilesWithBudget with the category's
\* budget, then (except for the last category) getBudgetWithSpillover
Admit(category, files, omittedBefore, skipBoundsCheck, next) ==
  LET budget == CategoryBudget(category, baseBudgets[category], spilloverBudget)
      st0 == [files |-> bundle.files, omittedFiles |-> omittedBefore,
              addedFiles |-> addedFiles, used |-> 0,
              categories |-> bundle.categories,
              totalTokens |-> bundle.totalTokens,
              categoryOmissions |-> categoryOmissions, log |-> <<>>]
      Spill(used) == IF category = "type" THEN spilloverBudget
                     ELSE getBudgetWithSpillover(baseBudgets[category],
                                                 spilloverBudget, used)
  IN \E st \in {addFilesWithBudget(files, category, budget, skipBoundsCheck, st0)} :
     \E spill \in {Spill(st.used)} :
     /\ bundle' = [bundle EXCEPT !.files = st.files,
                                 !.omittedFiles = st.omittedFiles,
                                 !.categories = st.categories,
                                 !.totalTokens = st.totalTokens]
     /\ addedFiles' = st.addedFiles
     /\ categoryOmissions' = st.categoryOmissions
     /\ spilloverBudget' = spill
     /\ admission' = [admission EXCEPT ![category] =
           [done |-> TRUE, candidates |-> files, budget |-> budget,
            spillBefore |-> spilloverBudget, spillAfter |-> spill,
            used |-> st.used, log |-> st.log, addedBefore |-> addedFiles,
            omittedBefore |-> bundle.omittedFiles,
            omittedAfter |-> st.omittedFiles]]
     /\ pc' = next

\* expandPath and readFileEntry for every entry of includeFiles; an exception
\* of expandPath is not caught
RECURSIVE ExpandAll(_, _)
ExpandAll(includeFiles, allowExternal) ==
  IF includeFiles = <<>> THEN [entries |-> <<>>, omitted |-> <<>>, threw |-> FALSE]
  ELSE LET Collect(r, rest) ==
             [entries |-> ReadAll(r.files, "explicit") \o rest.entries,
              omitted |->
                [i \in 1..Len(r.blocked) |->
                   [path |-> r.blocked[i].path, category |-> "explicit",
                    tokenEstimate |-> 0, reason |-> r.blocked[i].reason]]
                \o rest.omitted,
              threw |-> r.threw \/ rest.threw]
       IN Collect(expandPath(Head(includeFiles), allowExternal),
                  ExpandAll(Tail(includeFiles), allowExternal))

\* 1a. explicitly included files. When expandPath throws, the promise of
\* bundleContext is rejected and no bundle is returned.
ProcessExplicit ==
  /\ pc = "explicit"
  /\ \E x \in {ExpandAll(options.includeFiles, options.allowExternalFiles)} :
        IF x.threw
        THEN /\ pc' = "threw"
             /\ UNCHANGED <<bundle, addedFiles, categoryOmissions,
                            spilloverBudget, admission>>
        ELSE Admit("explicit", x.entries, bundle.omittedFiles \o x.omitted, TRUE,
                   "session")
  /\ UNCHANGED <<serviceVars, compare, redaction, imports, options, sessionContext,
                 baseBudgets, modifiedFiles>>

InSeq(x, s) == \E i \in 1..Len(s) : s[i] = x

RECURSIVE ReadSession(_, _)
ReadSession(paths, ctx) ==
  IF paths = <<>> THEN [entries |-> <<>>, modified |-> <<>>]
  ELSE LET filePath == Head(paths)
           Collect(e, rest) ==
             [entries |-> e \o rest.entries,
              modified |->
                (IF e # <<>> /\ (InSeq(filePath, ctx.filesWritten)
                                 \/ InSeq(filePath, ctx.filesEdited))
                 THEN <<filePath>> ELSE <<>>) \o rest.modified]
       IN Collect(readFileEntry(filePath, "session",
                                CachedLen(ctx.fileContents, filePath)),
                  ReadSession(Tail(paths), ctx))

\* 2. session files
ProcessSession ==
  /\ pc = "session"
  /\ LET allSessionFiles ==
           IF sessionContext.present
           THEN sessionContext.filesWritten \o sessionContext.filesEdited
                \o sessionContext.filesRead
           ELSE <<>>
     IN \E r \in {ReadSession(allSessionFiles, sessionContext)} :
        /\ modifiedFiles' = r.modified
        /\ Admit("session", r.entries, bundle.omittedFiles, FALSE, "git")
  /\ UNCHANGED <<serviceVars, compare, redaction, imports, options, sessionContext,
                 baseBudgets>>

Paths(entries) == [i \in 1..Len(entries) |-> entries[i].path]

\* 3. git changes not in session
ProcessGit ==
  /\ pc = "git"
  /\ \E gitChangedFiles \in GitChoices :
       LET gitFiles == ReadNew(gitChangedFiles, "git", addedFiles)
       IN /\ modifiedFiles' = modifiedFiles \o Paths(gitFiles)
          /\ Admit("git", gitFiles, bundle.omittedFiles, FALSE, "dependency")
  /\ UNCHANGED <<serviceVars, compare, redaction, imports, options, sessionContext,
                 baseBudgets>>

\* 4. dependencies of the modified files, smallest first
ProcessDependency ==
  /\ pc = "dependency"
  /\ \E includeDependencies \in BOOLEAN, deps \in DependencyChoices :
       LET depFiles ==
             IF includeDependencies /\ Len(modifiedFiles) > 0
             THEN SortByTokens(ReadNew(deps, "dependency", addedFiles))
             ELSE <<>>
       IN Admit("dependency", depFiles, bundle.omittedFiles, FALSE, "dependent")
  /\ UNCHANGED <<serviceVars, compare, redaction, imports, options, sessionContext,
                 baseBudgets, modifiedFiles>>

\* 5. dependents of the modified files, smallest first
ProcessDependent ==
  /\ pc = "dependent"
  /\ \E includeDependents \in BOOLEAN, dependents \in DependentChoices :
       LET dependentFiles ==
             IF includeDependents /\ Len(modifiedFiles) > 0
             THEN SortByTokens(ReadNew(dependents, "dependent", addedFiles))
             ELSE <<>>
       IN Admit("dependent", dependentFiles, bundle.omittedFiles, FALSE, "test")
  /\ UNCHANGED <<serviceVars, compare, redaction, imports, options, sessionContext,
                 baseBudgets, modifiedFiles>>

\* 6. test files
ProcessTest ==
  /\ pc = "test"
  /\ \E includeTests \in BOOLEAN, tests \in TestChoices :
       LET testFiles ==
             IF includeTests /\ Len(modifiedFiles) > 0
             THEN ReadNew(tests, "test", addedFiles) ELSE <<>>
       IN Admit("test", testFiles, bundle.omittedFiles, FALSE, "type")
  /\ UNCHANGED <<serviceVars, compare, redaction, imports, options, sessionContext,
                 baseBudgets, modifiedFiles>>

\* 7. type files: the last category
ProcessType ==
  /\ pc = "type"
  /\ \E includeTypes \in BOOLEAN, types \in TypeChoices :
       LET typeFiles ==
             IF includeTypes /\ Len(modifiedFiles) > 0
             THEN ReadNew(types, "type", addedFiles) ELSE <<>>
       IN Admit("type", typeFiles, bundle.omittedFiles, FALSE, "warnings")
  /\ UNCHANGED <<serviceVars, compare, redaction, imports, options, sessionContext,
                 baseBudgets, modifiedFiles>>

\* Math.ceil((maxTokens + info.tokens + 5000) / 10000) * 10000
SuggestedBudget(maxTokens, tokens) ==
  ((maxTokens + tokens + 5000 + 9999) \div 10000) * 10000

\* a warning is issued for a category whether or not it lost a file
Warning_Always(category, info, maxTokens) ==
  <<[severity |-> IF category = "explicit" THEN "high" ELSE "medium",
     category |-> category, omittedCount |-> info.count,
     omittedTokens |-> info.tokens,
     suggestedBudget |-> SuggestedBudget(maxTokens, info.tokens)]>>

Warning(category, info, maxTokens) ==
  IF info.count > 0
  THEN <<[severity |-> IF category = "explicit" THEN "high" ELSE "medium",
          category |-> category, omittedCount |-> info.count,
          omittedTokens |-> info.tokens,
          suggestedBudget |-> SuggestedBudget(maxTokens, info.tokens)]>>
  ELSE <<>>

\* budget warnings, then the bundle is returned
Finalize ==
  /\ pc = "warnings"
  /\ bundle' = [bundle EXCEPT !.budgetWarnings =
        Warning("explicit", categoryOmissions["explicit"], options.maxTokens)
        \o Warning("session", categoryOmissions["session"], options.maxTokens)]
  /\ pc' = "done"
  /\ UNCHANGED <<serviceVars, compare, redaction, imports, options, sessionContext, addedFiles, baseBudgets,
                 spilloverBudget, categoryOmissions, modifiedFiles, admission>>

\* the paths of the entries of a list of files
PathsOf(files) == [i \in 1..Len(files) |-> files[i].path]

\* buildEgressSummary that lists the project files only
buildEgressSummary_ProjectOnly(b, project) ==
  [projectFilePaths |->
     PathsOf(SelectSeq(b.files, LAMBDA f : isWithinProject(f.path, project))),
   externalFilePaths |-> <<>>,
   blockedFiles |->
     [i \in 1..Len(b.omittedFiles) |->
        [path |-> b.omittedFiles[i].path, reason |-> b.omittedFiles[i].reason]]]

\* buildEgressSummary, review.ts lines 370-405: the lists of paths and the
\* blocked files (the counts are the lengths of the lists)
buildEgressSummary(b, project) ==
  [projectFilePaths |->
     PathsOf(SelectSeq(b.files, LAMBDA f : isWithinProject(f.path, project))),
   externalFilePaths |->
     PathsOf(SelectSeq(b.files, LAMBDA f : ~isWithinProject(f.path, project))),
   blockedFiles |->
     [i \in 1..Len(b.omittedFiles) |->
        [path |-> b.omittedFiles[i].path, reason |-> b.omittedFiles[i].reason]]]

\* executeReview, line 431: the summary of the bundle that was returned
Summarize ==
  /\ pc = "done"
  /\ pc' = "summarized"
  /\ summary' = buildEgressSummary(bundle, projectPath)
  /\ UNCHANGED <<options, sessionContext, bundle, addedFiles, baseBudgets,
                 spilloverBudget, categoryOmissions, modifiedFiles, admission,
                 compare, redaction, imports, limiter, review, consensus, calls>>

Next ==
  \/ Start
  \/ ProcessExplicit
  \/ ProcessSession
  \/ ProcessGit
  \/ ProcessDependency
  \/ ProcessDependent
  \/ ProcessTest
  \/ ProcessType
  \/ Finalize
  \/ Summarize

Spec == Init /\ [][Next]_vars

(***************************************************************************)
(* Helpers of the properties                                               *)
(***************************************************************************)
FilePaths == {bundle.files[i].path : i \in 1..Len(bundle.files)}

\* the symlink-resolved form of a path of the bundle
Canonical(p) == IF realpathSync(p) # NoPath THEN realpathSync(p) ELSE normalize(p)

MatchesSensitive(p) ==
  isSensitivePath(p) \/ (existsSync(p) /\ isSensitivePath(realpathSync(p)))

OmittedWith(p, c, r) ==
  \E i \in 1..Len(bundle.omittedFiles) :
     /\ bundle.omittedFiles[i].path = p
     /\ bundle.omittedFiles[i].category = c
     /\ bundle.omittedFiles[i].reason = r

Priority(c) == CHOOSE i \in 1..Len(CATEGORY_PRIORITY_ORDER) : CATEGORY_PRIORITY_ORDER[i] = c

RequestedPaths == {ExpandedPath(r) : r \in Range(options.includeFiles)}

\* the symbolic links of the filesystem that lie inside the project root
ProjectLinks ==
  {n \in Range(FsNodes) : n.kind = "link" /\ IsPrefix(projectPath, n.path)}

Parent(p) == SubSeq(p, 1, Len(p) - 1)

\* the entries met when a requested directory is expanded: the entry is not
\* skipped by name and its directory is the real path of a request
MetInRequestedDir(p) ==
  /\ ~IsHidden(p[Len(p)])
  /\ p[Len(p)] # "node_modules"
  /\ \E q \in RequestedPaths :
        /\ ~MatchesSensitive(q)
        /\ existsSync(q)
        /\ options.allowExternalFiles \/ isWithinProject(q, projectPath)
        /\ realpathSync(q) = Parent(p)

(***************************************************************************)
(* C1: an explicitly requested path whose normalized or real path matches  *)
(* a sensitive-path pattern is never in bundle.files, and once the         *)
(* explicit files are processed it is recorded in omittedFiles with reason *)
(* sensitive_path.                                                         *)
(***************************************************************************)
C1_RequestedSensitiveNeverBundled ==
  \A p \in RequestedPaths :
     MatchesSensitive(p) =>
        /\ p \notin FilePaths
        /\ Canonical(p) \notin FilePaths
        /\ admission["explicit"].done => OmittedWith(p, "explicit", "sensitive_path")

(***************************************************************************)
(* C2: whatever the source of a candidate, no file whose path matches a    *)
(* sensitive-path pattern is in bundle.files.                              *)
(***************************************************************************)
C2_NoSensitiveFileInBundle ==
  \A p \in FilePaths : ~MatchesSensitive(p)

(***************************************************************************)
(* C3: a symbolic link inside the project root whose target matches a      *)
(* sensitive-path pattern is blocked with reason sensitive_path, as its    *)
(* target is when requested directly: the link yields an omittedFiles      *)
(* entry with that reason and no explicit file, both when it is requested  *)
(* directly and when it is met in a requested directory.                   *)
(***************************************************************************)
C3_SensitiveSymlinkBlocked ==
  admission["explicit"].done =>
    \A n \in ProjectLinks :
       (existsSync(n.path) /\ isSensitivePath(realpathSync(n.path))) =>
          /\ (n.path \in RequestedPaths \/ MetInRequestedDir(n.path)) =>
                OmittedWith(n.path, "explicit", "sensitive_path")
          /\ \A i \in 1..Len(admission["explicit"].candidates) :
                admission["explicit"].candidates[i].path
                   \notin {n.path, realpathSync(n.path)}
          /\ expandAbs(realpathSync(n.path), options.allowExternalFiles, 0)
                = BlockedResult(realpathSync(n.path), "sensitive_path", 0)

C3_Witness ==
  /\ pc = "done"
  /\ options.includeFiles = <<Rel(<<"src", "keylink">>), Rel(<<"src">>)>>
  /\ Len(SelectSeq(bundle.omittedFiles,
                   LAMBDA o : o.path = <<"proj", "src", "keylink">>
                              /\ o.reason = "sensitive_path")) = 2

(***************************************************************************)
(* C4: with allowExternalFiles false, a requested path or an entry of a    *)
(* requested directory whose real path is not the real project root nor    *)
(* beneath it is rejected with reason                                      *)
(* outside_project_requires_allowExternalFiles, and no file of             *)
(* bundle.files lies outside the project.                                  *)
(***************************************************************************)
C4_ExternalRejectedWithoutAllow ==
  ~options.allowExternalFiles =>
    /\ \A p \in FilePaths : isWithinProject(p, projectPath)
    /\ admission["explicit"].done =>
         \A p \in RequestedPaths \cup {q \in FsPaths : MetInRequestedDir(q)} :
            (~MatchesSensitive(p) /\ existsSync(p)
                /\ ~IsPrefix(realpathSync(projectPath), realpathSync(p))) =>
               /\ OmittedWith(p, "explicit",
                              "outside_project_requires_allowExternalFiles")
               /\ realpathSync(p) \notin FilePaths

C4_Witness ==
  /\ pc = "done"
  /\ ~options.allowExternalFiles
  /\ options.includeFiles = <<Rel(<<"src", "extlink">>), Rel(<<"src">>)>>
  /\ Len(SelectSeq(bundle.omittedFiles,
                   LAMBDA o : o.path = <<"proj", "src", "extlink">>
                              /\ o.reason = "outside_project_requires_allowExternalFiles")) = 2

(***************************************************************************)
(* C5: each canonical (symlink-resolved) path is in bundle.files at most   *)
(* once, under the highest-priority category that had it as a candidate.   *)
(***************************************************************************)
C5_NoDoubleCounting ==
  /\ \A i, j \in 1..Len(bundle.files) :
        i # j => Canonical(bundle.files[i].path) # Canonical(bundle.files[j].path)
  /\ \A i \in 1..Len(bundle.files) : \A c \in Categories :
        (\E k \in 1..Len(admission[c].candidates) :
            Canonical(admission[c].candidates[k].path)
               = Canonical(bundle.files[i].path))
        => Priority(bundle.files[i].category) <= Priority(c)

(***************************************************************************)
(* C6: bundle.totalTokens, the conversation tokens plus the estimates of   *)
(* the admitted files, is at most maxTokens.                               *)
(***************************************************************************)
C6_TotalTokensWithinMax ==
  bundle.totalTokens <= options.maxTokens

(***************************************************************************)
(* C7: budget conservation. Over all categories, base budget plus net      *)
(* spillover received (the bonus granted to the category minus the unused  *)
(* base budget it passed on; the last category passes nothing on) sums to  *)
(* maxTokens minus the conversation tokens, up to the floor of each of the *)
(* seven base budgets.                                                     *)
(***************************************************************************)
RECURSIVE SumOver(_, _)
SumOver(f, S) ==
  IF S = {} THEN 0
  ELSE LET x == CHOOSE y \in S : TRUE IN f[x] + SumOver(f, S \ {x})

BonusGranted(c) == admission[c].budget - baseBudgets[c]

UnusedPassedOn(c) ==
  IF c = "type" THEN 0 ELSE Max(0, baseBudgets[c] - admission[c].used)

NetSpilloverReceived == [c \in Categories |-> BonusGranted(c) - UnusedPassedOn(c)]

RemainingBudget == options.maxTokens - estimateTokens(bundle.conversationContext)

C7_BudgetConservation ==
  pc \in {"warnings", "done"} =>
    LET total == SumOver(baseBudgets, Categories)
                 + SumOver(NetSpilloverReceived, Categories)
    IN /\ total <= RemainingBudget
       /\ total > RemainingBudget - Cardinality(Categories)

C7_Witness ==
  /\ pc = "done"
  /\ \E c \in Categories : admission[c].used > baseBudgets[c]
  /\ \E c \in Categories : admission[c].used = 0 /\ BonusGranted(c) > 0
  /\ BonusGranted("type") > 0

(***************************************************************************)
(* C8: every category but the last is admitted against its base budget     *)
(* plus half of the spillover accumulated so far, the other half staying   *)
(* in the spillover; the last category is admitted against its base budget *)
(* plus all the spillover that remains.                                    *)
(***************************************************************************)
C8_EffectiveBudget ==
  \A i \in 1..Len(CATEGORY_PRIORITY_ORDER) :
     LET c == CATEGORY_PRIORITY_ORDER[i]
         a == admission[c]
     IN a.done =>
          /\ a.spillBefore = IF i = 1 THEN 0
                             ELSE admission[CATEGORY_PRIORITY_ORDER[i - 1]].spillAfter
          /\ IF i < Len(CATEGORY_PRIORITY_ORDER)
             THEN /\ a.budget = baseBudgets[c] + (a.spillBefore \div 2)
                  /\ a.spillAfter = (a.spillBefore - (a.spillBefore \div 2))
                                    + Max(0, baseBudgets[c] - a.used)
             ELSE a.budget = baseBudgets[c] + a.spillBefore

C8_Witness ==
  /\ pc = "done"
  /\ admission["git"].spillBefore > 1
  /\ admission["git"].spillBefore % 2 = 1
  /\ admission["type"].spillBefore > 0

(***************************************************************************)
(* C9: within a category a file that would push the tokens used past the   *)
(* effective budget is recorded as omitted with reason budget_exceeded and *)
(* the loop goes on: every later file that passes the bounds check and     *)
(* fits in what remains of the effective budget is in bundle.files.        *)
(***************************************************************************)
RECURSIVE UsedBefore(_, _)
UsedBefore(a, j) ==
  IF j <= 1 THEN 0
  ELSE UsedBefore(a, j - 1)
       + (IF a.log[j - 1] = "added" THEN a.candidates[j - 1].tokenEstimate ELSE 0)

C9_OmitAndContinue ==
  \A c \in Categories :
     LET a == admission[c] IN
     a.done =>
       \A j \in 1..Len(a.candidates) :
          LET file == a.candidates[j]
              fits == UsedBefore(a, j) + file.tokenEstimate <= a.budget
              inBounds == c = "explicit" \/ isWithinProject(file.path, projectPath)
          IN /\ (inBounds /\ ~fits) =>
                   /\ a.log[j] = "budget_exceeded"
                   /\ OmittedWith(file.path, c, "budget_exceeded")
             /\ (inBounds /\ fits) =>
                   /\ a.log[j] \in {"added", "already_added"}
                   /\ file.path \in FilePaths

C9_Witness ==
  \E c \in Categories :
     LET a == admission[c] IN
     /\ a.done
     /\ \E i, j \in 1..Len(a.candidates) :
           /\ i < j
           /\ a.log[i] = "budget_exceeded"
           /\ a.log[j] = "added"
           /\ a.candidates[j] \in Range(bundle.files)

(***************************************************************************)
(* The spillover bookkeeping of bundleContext run twice on the same        *)
(* remaining budget: in one run the category `skipped` uses nothing, in    *)
(* the other it uses exactly its base budget; every other category uses    *)
(* the same number of tokens in both runs.                                 *)
(***************************************************************************)
UsageChoices(budget) == {u \in {0, 1, budget} : 0 <= u /\ u <= budget}

InitSpill ==
  /\ pc = "idle"
  /\ sessionContext = NoSession
  /\ options = [includeFiles |-> <<>>, allowExternalFiles |-> FALSE,
                maxTokens |-> 0, includeConversation |-> FALSE]
  /\ bundle = [conversationContext |-> 0, files |-> <<>>, omittedFiles |-> <<>>,
               totalTokens |-> 0, categories |-> [c \in Categories |-> 0],
               budgetWarnings |-> <<>>]
  /\ addedFiles = {}
  /\ baseBudgets = [c \in Categories |-> 0]
  /\ spilloverBudget = 0
  /\ categoryOmissions = [c \in {"explicit", "session"} |-> [count |-> 0, tokens |-> 0]]
  /\ modifiedFiles = <<>>
  /\ admission = [c \in Categories |-> NoAdmission]
  /\ redaction = NoRedaction
  /\ imports = NoImports
  /\ IdleServices
  /\ \E r \in 0..MaxRemaining, k \in 1..(Len(CATEGORY_PRIORITY_ORDER) - 1) :
        compare = [remaining |-> r, skipped |-> k, next |-> 1,
                   spillZero |-> 0, spillFull |-> 0,
                   effZero |-> <<>>, effFull |-> <<>>]

\* one category in both runs: its budget, then the spillover update
CompareWith(usedZero, usedFull) ==
  LET c == CATEGORY_PRIORITY_ORDER[compare.next]
      base == BaseBudget(compare.remaining, c)
  IN compare' =
       [compare EXCEPT
          !.next = @ + 1,
          !.effZero = Append(@, CategoryBudget(c, base, compare.spillZero)),
          !.effFull = Append(@, CategoryBudget(c, base, compare.spillFull)),
          !.spillZero = IF c = "type" THEN @
                        ELSE getBudgetWithSpillover(base, @, usedZero),
          !.spillFull = IF c = "type" THEN @
                        ELSE getBudgetWithSpillover(base, @, usedFull)]

CompareSkipped ==
  /\ compare.next = compare.skipped
  /\ CompareWith(0, BaseBudget(compare.remaining,
                               CATEGORY_PRIORITY_ORDER[compare.next]))
  /\ UNCHANGED <<serviceVars, redaction, imports, pc, options, sessionContext, bundle, addedFiles, baseBudgets,
                 spilloverBudget, categoryOmissions, modifiedFiles, admission>>

CompareOther ==
  /\ compare.next \in 1..Len(CATEGORY_PRIORITY_ORDER)
  /\ compare.next # compare.skipped
  /\ LET c == CATEGORY_PRIORITY_ORDER[compare.next]
         base == BaseBudget(compare.remaining, c)
     IN \E used \in UsageChoices(CategoryBudget(c, base, compare.spillFull)) :
           CompareWith(used, used)
  /\ UNCHANGED <<serviceVars, redaction, imports, pc, options, sessionContext, bundle, addedFiles, baseBudgets,
                 spilloverBudget, categoryOmissions, modifiedFiles, admission>>

NextSpill == CompareSkipped \/ CompareOther

SpecSpill == InitSpill /\ [][NextSpill]_vars

SkippedBase ==
  BaseBudget(compare.remaining, CATEGORY_PRIORITY_ORDER[compare.skipped])

(***************************************************************************)
(* C10, as stated: when a category with a base budget uses none of it,     *)
(* the effective budget of every following category is strictly larger     *)
(* than in the run where the category uses exactly its base budget.        *)
(***************************************************************************)
C10_StrictlyLargerForAll ==
  (compare.skipped >= 1 /\ SkippedBase >= 1) =>
    \A j \in (compare.skipped + 1)..Len(compare.effZero) :
       compare.effZero[j] > compare.effFull[j]

(***************************************************************************)
(* C10, amended: the effective budget of every following category is never *)
(* smaller, and it is strictly larger for the category n places later      *)
(* whenever the unused base budget is at least 2^n tokens.                 *)
(***************************************************************************)
C10_SpilloverMonotone ==
  compare.skipped >= 1 =>
    \A j \in (compare.skipped + 1)..Len(compare.effZero) :
       /\ compare.effZero[j] >= compare.effFull[j]
       /\ SkippedBase >= 2 ^ (j - compare.skipped)
            => compare.effZero[j] > compare.effFull[j]

C10_Witness ==
  /\ compare.skipped = 2
  /\ compare.next = Len(CATEGORY_PRIORITY_ORDER) + 1
  /\ SkippedBase >= 2 ^ (Len(CATEGORY_PRIORITY_ORDER) - compare.skipped)
  /\ compare.spillFull > 0
  /\ \A j \in 3..Len(CATEGORY_PRIORITY_ORDER) : compare.effZero[j] > compare.effFull[j]

(***************************************************************************)
(* C11: when the step of a category completes, every candidate it         *)
(* rejected because of a sensitive path, a path outside the project or an  *)
(* exhausted budget has an omittedFiles entry with the matching reason and *)
(* category; rejecting raises no exception (a run only throws when a       *)
(* requested directory cannot be listed); and no step removes or changes   *)
(* an entry of omittedFiles: each step keeps the entries it found and the  *)
(* bundle holds the entries every step left.                               *)
(***************************************************************************)
OmittedEntry(file, c, r) ==
  \E i \in 1..Len(bundle.omittedFiles) :
     bundle.omittedFiles[i] = Omitted(file, c, r)

\* the category whose step has just completed
JustAdmitted(c) ==
  /\ admission[c].done
  /\ c # "type" => ~admission[CATEGORY_PRIORITY_ORDER[Priority(c) + 1]].done

\* omittedFiles as each step found it and left it: every step keeps the
\* entries it found, in place, and the bundle still holds them
OmittedOnlyGrows ==
  \A i \in 1..Len(CATEGORY_PRIORITY_ORDER) :
     LET a == admission[CATEGORY_PRIORITY_ORDER[i]] IN
     a.done =>
       /\ IsPrefix(a.omittedBefore, a.omittedAfter)
       /\ IsPrefix(a.omittedAfter, bundle.omittedFiles)
       /\ i > 1 => IsPrefix(admission[CATEGORY_PRIORITY_ORDER[i - 1]].omittedAfter,
                            a.omittedBefore)

RejectionsRecorded ==
  /\ JustAdmitted("explicit") =>
       \A p \in RequestedPaths \cup {q \in FsPaths : MetInRequestedDir(q)} :
          /\ MatchesSensitive(p) => OmittedWith(p, "explicit", "sensitive_path")
          /\ (~MatchesSensitive(p) /\ existsSync(p)
                /\ ~options.allowExternalFiles
                /\ ~isWithinProject(realpathSync(p), projectPath))
             => OmittedWith(p, "explicit",
                            "outside_project_requires_allowExternalFiles")
  /\ \A c \in Categories :
        LET a == admission[c] IN
        JustAdmitted(c) =>
          \A j \in 1..Len(a.candidates) :
             LET file == a.candidates[j]
                 inBounds == c = "explicit" \/ isWithinProject(file.path, projectPath)
             IN /\ ~inBounds =>
                     /\ a.log[j] = "outside_project"
                     /\ OmittedEntry(file, c, "outside_project")
                /\ (inBounds /\ UsedBefore(a, j) + file.tokenEstimate > a.budget) =>
                     /\ a.log[j] = "budget_exceeded"
                     /\ OmittedEntry(file, c, "budget_exceeded")

C11_RejectionsRecorded ==
  /\ OmittedOnlyGrows
  /\ RejectionsRecorded
  /\ pc = "threw" =>
       \E p \in RequestedPaths : existsSync(p) /\ ~Listable(realpathSync(p))

C11_Witness ==
  /\ pc = "done"
  /\ \E i \in 1..Len(bundle.omittedFiles) :
        bundle.omittedFiles[i].reason = "sensitive_path"
  /\ \E i \in 1..Len(bundle.omittedFiles) :
        bundle.omittedFiles[i].reason = "outside_project"
  /\ \E i \in 1..Len(bundle.omittedFiles) :
        bundle.omittedFiles[i].reason = "budget_exceeded"

(***************************************************************************)
(* C12: whatever allowExternalFiles is, a file of bundle.files that lies   *)
(* outside the project root has category explicit, was admitted with       *)
(* allowExternalFiles set and is the real path of an explicit request or   *)
(* of an entry of a requested directory; a session, git, dependency,       *)
(* dependent, test or type candidate outside the project root is rejected  *)
(* with reason outside_project.                                            *)
(***************************************************************************)
AutomaticCategories == Categories \ {"explicit"}

C12_AutomaticNeverExternal ==
  /\ \A i \in 1..Len(bundle.files) :
        ~isWithinProject(bundle.files[i].path, projectPath) =>
           /\ bundle.files[i].category = "explicit"
           /\ options.allowExternalFiles
           /\ \E r \in Range(options.includeFiles) :
                 InSeq(bundle.files[i].path,
                       expandPath(r, options.allowExternalFiles).files)
  /\ \A c \in AutomaticCategories :
        LET a == admission[c] IN
        a.done =>
          \A j \in 1..Len(a.candidates) :
             ~isWithinProject(a.candidates[j].path, projectPath) =>
                /\ a.log[j] = "outside_project"
                /\ a.candidates[j].path \notin (FilePaths \ a.addedBefore)

C12_Witness ==
  /\ pc = "done"
  /\ options.allowExternalFiles
  /\ \E i \in 1..Len(bundle.files) :
        /\ bundle.files[i].path = <<"ext", "e.ts">>
        /\ bundle.files[i].category = "explicit"
  /\ OmittedWith(<<"ext", "e.ts">>, "session", "outside_project")

(***************************************************************************)
(* C13: a filesystem failure on a single candidate (a missing file, a      *)
(* permission denied, a failing stat, directory listing or symlink         *)
(* resolution) is treated as that candidate not existing: bundleContext    *)
(* never throws because of it.                                             *)
(***************************************************************************)
C13_NeverThrows ==
  pc # "threw"

(***************************************************************************)
(* C14, as stated: a requested path that does not exist, or whose real     *)
(* path cannot be resolved (a dangling symbolic link), is silently         *)
(* skipped: it has no entry in bundle.files and no entry in omittedFiles.  *)
(***************************************************************************)
C14_MissingRequestLeavesNoTrace ==
  admission["explicit"].done =>
    \A p \in RequestedPaths :
       ~existsSync(p) =>
          /\ p \notin FilePaths
          /\ \A i \in 1..Len(bundle.omittedFiles) : bundle.omittedFiles[i].path # p

(***************************************************************************)
(* C14, amended: a requested path that does not exist or cannot be         *)
(* resolved and matches no sensitive-path pattern is silently skipped: the *)
(* request yields no explicit candidate, no explicit file of bundle.files  *)
(* and no entry of omittedFiles; one that matches a sensitive-path pattern *)
(* is recorded in omittedFiles with reason sensitive_path, as the pattern  *)
(* check comes before any access to the filesystem.                        *)
(***************************************************************************)
C14_MissingSkippedUnlessSensitive ==
  admission["explicit"].done =>
    \A p \in RequestedPaths :
       ~existsSync(p) =>
          /\ \A j \in 1..Len(admission["explicit"].candidates) :
                admission["explicit"].candidates[j].path # p
          /\ \A i \in 1..Len(bundle.files) :
                bundle.files[i].path = p => bundle.files[i].category # "explicit"
          /\ IF isSensitivePath(p)
             THEN OmittedWith(p, "explicit", "sensitive_path")
             ELSE \A i \in 1..Len(bundle.omittedFiles) :
                     bundle.omittedFiles[i].path # p

C14_Witness ==
  /\ pc = "done"
  /\ options.includeFiles = <<Rel(<<"src", "dangling">>)>>
  /\ ~existsSync(<<"proj", "src", "dangling">>)
  /\ admission["explicit"].candidates = <<>>
  /\ \A i \in 1..Len(bundle.omittedFiles) :
        bundle.omittedFiles[i].category # "explicit"

(***************************************************************************)
(* C15: the expansion of a requested path terminates on every directory    *)
(* structure, symlink cycles included, and no call of expandPath works at  *)
(* a depth of MAX_EXPAND_DEPTH (10) or more; a directory met at the cap is *)
(* dropped: the expansion does not throw and nothing beneath the requested *)
(* path is recorded in omittedFiles as blocked.                            *)
(***************************************************************************)
C15_DepthCapped ==
  \A r \in Range(options.includeFiles) :
     LET x == expandPath(r, options.allowExternalFiles) IN
     /\ x.deepest < MAX_EXPAND_DEPTH
     /\ x.capped > 0 =>
          /\ ~x.threw
          /\ pc # "threw"
          /\ \A i \in 1..Len(bundle.omittedFiles) :
                IsPrefix(Canonical(ExpandedPath(r)), bundle.omittedFiles[i].path)
                   => bundle.omittedFiles[i].reason = "budget_exceeded"

C15_Witness ==
  /\ pc = "done"
  /\ options.includeFiles = <<Rel(<<"deep">>)>>
  /\ expandPath(Rel(<<"deep">>), options.allowExternalFiles).capped = 1
  /\ expandPath(Rel(<<"deep">>), options.allowExternalFiles).deepest
        = MAX_EXPAND_DEPTH - 1
  /\ Len(admission["explicit"].candidates) = MAX_EXPAND_DEPTH
  /\ bundle.omittedFiles = <<>>

(***************************************************************************)
(* C18: bundle.budgetWarnings holds a warning for a category exactly when  *)
(* the category is explicit or session and at least one of its files is in *)
(* omittedFiles with reason budget_exceeded; the warning counts those      *)
(* files and their tokens, and the run's ceiling is untouched: maxTokens   *)
(* and the base budgets derived from it are what they were at the start.   *)
(***************************************************************************)
BudgetOmissions(c) ==
  SelectSeq(bundle.omittedFiles,
            LAMBDA o : o.category = c /\ o.reason = "budget_exceeded")

SumTokens(f) == SumOver([i \in 1..Len(f) |-> f[i].tokenEstimate], 1..Len(f))

C18_WarningsExactlyWhenOmitted ==
  pc = "done" =>
    /\ \A c \in Categories :
          (\E i \in 1..Len(bundle.budgetWarnings) :
              bundle.budgetWarnings[i].category = c)
          <=> (c \in {"explicit", "session"} /\ BudgetOmissions(c) # <<>>)
    /\ \A i \in 1..Len(bundle.budgetWarnings) :
          LET w == bundle.budgetWarnings[i] IN
          /\ w.omittedCount = Len(BudgetOmissions(w.category))
          /\ w.omittedTokens = SumTokens(BudgetOmissions(w.category))
          /\ \A j \in 1..Len(bundle.budgetWarnings) :
                bundle.budgetWarnings[j].category = w.category => j = i
    /\ baseBudgets = [c \in Categories |-> BaseBudget(RemainingBudget, c)]

C18_Witness ==
  /\ pc = "done"
  /\ Len(bundle.budgetWarnings) = 1
  /\ bundle.budgetWarnings[1].category = "session"
  /\ BudgetOmissions("git") # <<>>
  /\ bundle.budgetWarnings[1].suggestedBudget > options.maxTokens

(***************************************************************************)
(* The secret redactor (redactSecrets). A text is a sequence of lexemes;   *)
(* the lexemes are chosen so that every match of a pattern begins and ends *)
(* at a lexeme boundary.                                                   *)
(***************************************************************************)
MaxPhrases == 3

OpenAiKey  == "sk-abcdefghijklmnopqrstuvwx"
PasswordIs == "password="
ApiKeyIs   == "api_key="
Quote      == "'"
Value      == "hunter2-hunter2"
Short      == "x-1z"
Space      == " "
Url        == "http://host/path"
Email      == "me@example.com"

\* the names of SECRET_PATTERNS, in the order of the list
SECRET_PATTERNS ==
  <<"private_key", "jwt", "aws_key", "github_token", "openai_key",
    "stripe_key", "slack_token", "connection_string", "basic_auth",
    "bearer_token", "hex_secret", "base64_secret", "api_key",
    "generic_secret">>

\* `[REDACTED:${name}]`
Placeholder(name) == "[REDACTED:" \o name \o "]"

Placeholders == {Placeholder(SECRET_PATTERNS[n]) : n \in 1..Len(SECRET_PATTERNS)}

\* character classes of the lexemes
HasColon(t) == t = Url \/ t \in Placeholders
HasAt(t) == t = Email
IsSpaceOrQuote(t) == t \in {Space, Quote}
StartsAlphanumeric(t) ==
  t \in {OpenAiKey, PasswordIs, ApiKeyIs, Value, Short, Url, Email}

\* the first of the positions from i on; 0 when there is none
FirstFrom(positions, i) ==
  LET hits == {j \in positions : j >= i}
  IN IF hits = {} THEN 0 ELSE CHOOSE j \in hits : \A k \in hits : j <= k

\* the number of characters of the lexemes from..to
RECURSIVE CharsBetween(_, _, _)
CharsBetween(text, from, to) ==
  IF from > to THEN 0
  ELSE Len(text[from]) + CharsBetween(text, from + 1, to)

\* /sk-[A-Za-z0-9]{20,}/g: the key, up to the first character that is not
\* alphanumeric
MatchOpenAiKey(text, i) ==
  IF text[i] = OpenAiKey
     /\ (i < Len(text) => ~StartsAlphanumeric(text[i + 1]))
  THEN 1 ELSE 0

\* /https?:\/\/[^:]+:[^@]+@[^\s'"]+/gi: from the scheme over the first colon
\* that follows and the first "@" after that colon, up to the next blank or
\* quote
MatchBasicAuth(text, i) ==
  IF text[i] # Url THEN 0
  ELSE LET colon == FirstFrom({j \in 1..Len(text) : HasColon(text[j])}, i + 1)
           at == IF colon = 0 THEN 0
                 ELSE FirstFrom({j \in 1..Len(text) : HasAt(text[j])}, colon + 1)
           stop == IF at = 0 THEN 0
                   ELSE FirstFrom({j \in 1..Len(text) : IsSpaceOrQuote(text[j])},
                                  at + 1)
       IN IF at = 0 THEN 0
          ELSE IF stop = 0 THEN Len(text) - i + 1
          ELSE stop - i

\* keyword, [:=], optional blanks, a quote, at least minChars characters that
\* are not quotes, a quote
MatchAssignment(text, i, keyword, minChars) ==
  IF text[i] # keyword THEN 0
  ELSE LET open == FirstFrom({j \in 1..Len(text) : text[j] # Space}, i + 1)
           close == IF open = 0 THEN 0
                    ELSE FirstFrom({j \in 1..Len(text) : text[j] = Quote}, open + 1)
       IN IF open = 0 \/ close = 0 THEN 0
          ELSE IF text[open] # Quote THEN 0
          ELSE IF CharsBetween(text, open + 1, close - 1) < minChars THEN 0
          ELSE close - i + 1

\* the number of lexemes the pattern matches at position i; 0: no match.
\* The other patterns match nothing that the lexemes can spell: no lexeme
\* holds their prefix (BEGIN, eyJ, AKIA, gh?_, sk_, xox, a database scheme,
\* Bearer), and no run of lexemes between quotes is 32 hexadecimal or 40
\* base64 characters long, as every lexeme holds a character outside those
\* classes.
MatchAt(name, text, i) ==
  CASE name = "openai_key"     -> MatchOpenAiKey(text, i)
    [] name = "basic_auth"     -> MatchBasicAuth(text, i)
    [] name = "api_key"        -> MatchAssignment(text, i, ApiKeyIs, 10)
    [] name = "generic_secret" -> MatchAssignment(text, i, PasswordIs, 8)
    [] OTHER                   -> 0

\* content.match(pattern) with the g flag: the matches from left to right,
\* none overlapping another
RECURSIVE CountMatchesFrom(_, _, _)
CountMatchesFrom(name, text, i) ==
  IF i > Len(text) THEN 0
  ELSE IF MatchAt(name, text, i) > 0
       THEN 1 + CountMatchesFrom(name, text, i + MatchAt(name, text, i))
       ELSE CountMatchesFrom(name, text, i + 1)

CountMatches(name, text) == CountMatchesFrom(name, text, 1)

\* redactedContent.replace(pattern, `[REDACTED:${name}]`)
RECURSIVE ReplaceFrom(_, _, _)
ReplaceFrom(name, text, i) ==
  IF i > Len(text) THEN <<>>
  ELSE IF MatchAt(name, text, i) > 0
       THEN <<Placeholder(name)>>
            \o ReplaceFrom(name, text, i + MatchAt(name, text, i))
       ELSE <<text[i]>> \o ReplaceFrom(name, text, i + 1)

ReplaceAll(name, text) == ReplaceFrom(name, text, 1)

\* redactedContent after the first n patterns
RECURSIVE Working(_, _)
Working(content, n) ==
  IF n = 0 THEN content
  ELSE ReplaceAll(SECRET_PATTERNS[n], Working(content, n - 1))

\* redactSecrets: the matches are counted in the content as given, the
\* replacements are made in the working copy
redactSecrets(content) ==
  LET found == SelectSeq(SECRET_PATTERNS, LAMBDA name : CountMatches(name, content) > 0)
  IN [content |-> Working(content, Len(SECRET_PATTERNS)),
      redactionCount |->
        SumOver([n \in 1..Len(SECRET_PATTERNS) |->
                   CountMatches(SECRET_PATTERNS[n], content)],
                1..Len(SECRET_PATTERNS)),
      redactedTypes |-> found]

\* The texts: up to MaxPhrases phrases, one after the other. A key is always
\* followed by a blank, a quote or the end of the text.
Phrases ==
  { <<OpenAiKey>>,
    <<PasswordIs, Quote, Value, Quote>>,
    <<PasswordIs, Quote, Short, Quote>>,
    <<PasswordIs, Quote, OpenAiKey, Quote>>,
    <<ApiKeyIs, Quote, OpenAiKey, Quote>>,
    <<ApiKeyIs, Space, Quote, Short, Short, Quote>>,
    <<Url>>,
    <<Email>>,
    <<Space>>,
    <<Short>> }

RECURSIVE Flatten(_)
Flatten(phrases) ==
  IF phrases = <<>> THEN <<>> ELSE Head(phrases) \o Flatten(Tail(phrases))

WellFormed(text) ==
  \A i \in 1..(Len(text) - 1) :
     text[i] = OpenAiKey => ~StartsAlphanumeric(text[i + 1])

Texts ==
  {t \in {Flatten(ps) : ps \in UNION {[1..n -> Phrases] : n \in 0..MaxPhrases}} :
     WellFormed(t)}

bundlerVars ==
  <<pc, options, sessionContext, bundle, addedFiles, baseBudgets,
    spilloverBudget, categoryOmissions, modifiedFiles, admission>>

\* no bundling run is going on
IdleBundler ==
  /\ pc = "idle"
  /\ sessionContext = NoSession
  /\ options = [includeFiles |-> <<>>, allowExternalFiles |-> FALSE,
                maxTokens |-> 0, includeConversation |-> FALSE]
  /\ bundle = [conversationContext |-> 0, files |-> <<>>, omittedFiles |-> <<>>,
               totalTokens |-> 0, categories |-> [c \in Categories |-> 0],
               budgetWarnings |-> <<>>]
  /\ addedFiles = {}
  /\ baseBudgets = [c \in Categories |-> 0]
  /\ spilloverBudget = 0
  /\ categoryOmissions = [c \in {"explicit", "session"} |-> [count |-> 0, tokens |-> 0]]
  /\ modifiedFiles = <<>>
  /\ admission = [c \in Categories |-> NoAdmission]

InitRedact ==
  /\ IdleBundler
  /\ compare = NoCompare
  /\ imports = NoImports
  /\ IdleServices
  /\ \E t \in Texts :
        redaction = [NoRedaction EXCEPT !.input = t]

\* redactSecrets(input)
RedactOnce ==
  /\ redaction.step = 0
  /\ redaction' = [redaction EXCEPT !.step = 1,
                                    !.once = redactSecrets(redaction.input)]
  /\ UNCHANGED <<serviceVars, bundlerVars, compare, imports>>

\* redactSecrets(redactSecrets(input).content)
RedactAgain ==
  /\ redaction.step = 1
  /\ redaction' = [redaction EXCEPT !.step = 2,
                                    !.twice = redactSecrets(redaction.once.content)]
  /\ UNCHANGED <<serviceVars, bundlerVars, compare, imports>>

\* formatConversationContext, session.ts lines 629-655, of a conversation
\* of one user message; the messages of the model hold no fenced code block
\* and stay under 2000 characters, so that condenseCodeBlocks and the
\* truncation leave them as they are
formatConversationContext(conversation) ==
  IF conversation = <<>> THEN <<>>
  ELSE <<"## Conversation Context\n\n", "**User**:\n">>
         \o conversation[1] \o <<"\n\n">>

\* bundleContext, lines 386-393: the conversation of the session, whose one
\* message is the text, becomes bundle.conversationContext
FormatConversation ==
  /\ ~redaction.formatted
  /\ redaction' =
       [redaction EXCEPT
          !.formatted = TRUE,
          !.conversationContext =
             formatConversationContext(IF redaction.input = <<>> THEN <<>>
                                       ELSE <<redaction.input>>)]
  /\ UNCHANGED <<serviceVars, bundlerVars, compare, imports>>

NextRedact == RedactOnce \/ RedactAgain \/ FormatConversation

SpecRedact == InitRedact /\ [][NextRedact]_vars

(***************************************************************************)
(* C16: redaction is idempotent: redacting the redacted content again      *)
(* gives the same content.                                                 *)
(***************************************************************************)
C16_RedactionIdempotent ==
  redaction.step = 2 => redaction.twice.content = redaction.once.content

(***************************************************************************)
(* C17: a secret matched by a pattern that is followed in the list by a    *)
(* more generic one is classified under the earlier pattern's name: the    *)
(* name is in redactedTypes and the redacted content holds one placeholder *)
(* of that name for each match the pattern replaced.                       *)
(***************************************************************************)
CountLexeme(t, text) == Len(SelectSeq(text, LAMBDA u : u = t))

C17_SpecificNameKept ==
  redaction.step >= 1 =>
    \A n \in 1..(Len(SECRET_PATTERNS) - 1) :
       LET name == SECRET_PATTERNS[n]
           replaced == CountMatches(name, Working(redaction.input, n - 1))
       IN replaced > 0 =>
            /\ InSeq(name, redaction.once.redactedTypes)
            /\ CountLexeme(Placeholder(name), redaction.once.content) = replaced

(***************************************************************************)
(* The import resolver and the import index                                *)
(*                                                                         *)
(* An import specifier is the sequence of its parts between "/": "./foo"   *)
(* is <<".", "foo">>, "/lib/main" is <<"", "lib", "main">>, "@/a" is       *)
(* <<"@", "a">> and "lodash" is <<"lodash">>.                              *)
(***************************************************************************)
MaxQuery == 2

CODE_EXTENSIONS == <<".ts", ".tsx", ".js", ".jsx", ".mjs", ".cjs">>

\* the result of resolveImportPath when the import is not resolved
null == <<"null">>

\* importPath.startsWith(".")
StartsWithDot(importPath) ==
  Head(importPath) \in {".", ".."} \/ IsHidden(Head(importPath))

\* importPath.startsWith("/")
StartsWithSlash(importPath) == Len(importPath) > 1 /\ Head(importPath) = ""

\* importPath.startsWith("@/")
StartsWithAlias(importPath) == Len(importPath) > 1 /\ Head(importPath) = "@"

\* whether resolveImportPath goes on to probe the filesystem
IsLocalImport(importPath) ==
  StartsWithDot(importPath) \/ StartsWithSlash(importPath)
    \/ StartsWithAlias(importPath)

TargetPath(importPath, fromFile, project) ==
  IF StartsWithAlias(importPath)
  THEN normalize(project \o <<"src">> \o Tail(importPath))
  ELSE IF StartsWithSlash(importPath)
       THEN normalize(project \o Tail(importPath))
       ELSE normalize(Parent(fromFile) \o importPath)

\* targetPath + ext
WithExtension(p, ext) ==
  IF p = <<>> THEN <<ext>> ELSE [p EXCEPT ![Len(p)] = @ \o ext]

Candidates(targetPath) ==
  <<targetPath>>
    \o [i \in 1..Len(CODE_EXTENSIONS) |->
          WithExtension(targetPath, CODE_EXTENSIONS[i])]
    \o [i \in 1..Len(CODE_EXTENSIONS) |->
          Append(targetPath, "index" \o CODE_EXTENSIONS[i])]

\* fs.existsSync(candidate) && fs.statSync(candidate).isFile()
IsFile(candidate) ==
  existsSync(candidate) /\ StatKind(realpathSync(candidate)) = "file"

RECURSIVE ProbeFrom(_, _, _)

\* the loop over the candidates without the bounds check
ProbeFrom_NoBoundsCheck(candidates, i, project) ==
  IF i > Len(candidates) THEN null
  ELSE IF IsFile(candidates[i]) THEN candidates[i]
  ELSE ProbeFrom(candidates, i + 1, project)

\* the loop over the candidates, from the i-th on
ProbeFrom(candidates, i, project) ==
  IF i > Len(candidates) THEN null
  ELSE IF IsFile(candidates[i])
       THEN IF ~isWithinProject(candidates[i], project) THEN null
            ELSE candidates[i]
  ELSE ProbeFrom(candidates, i + 1, project)

resolveImportPath(importPath, fromFile, project) ==
  IF ~IsLocalImport(importPath) THEN null
  ELSE ProbeFrom(Candidates(TargetPath(importPath, fromFile, project)), 1, project)

\* the names of the model that end in one of CODE_EXTENSIONS
Stems ==
  {"a", "b", "c", ".hidden", "alias", "m", "s", "x", "d", "main", "self",
   "foo", "index", "e"}

HasCodeExtension(name) ==
  \E stem \in Stems : \E i \in 1..Len(CODE_EXTENSIONS) :
     name = stem \o CODE_EXTENSIONS[i]

Ignored == {"node_modules", "dist", "build", ".git"}

\* whether glob reports p for the patterns **/*<ext> under cwd: a name with
\* a code extension, below cwd through directories glob can list, with no
\* ignored and no dot segment on the way (symbolic links to directories are
\* not walked)
GlobMatches(p, cwd) ==
  /\ IsPrefix(cwd, p) /\ Len(p) > Len(cwd)
  /\ HasCodeExtension(p[Len(p)])
  /\ \A i \in (Len(cwd) + 1)..Len(p) : ~IsHidden(p[i]) /\ p[i] \notin Ignored
  /\ \A i \in Len(cwd)..(Len(p) - 1) :
        LET d == SubSeq(p, 1, i) IN
        d \in FsPaths /\ Node(d).kind = "dir" /\ Node(d).readable

\* glob(patterns, {cwd, absolute: true, ignore}), in listing order
glob(cwd) ==
  LET found == SelectSeq(FsNodes, LAMBDA n : GlobMatches(n.path, cwd))
  IN [i \in 1..Len(found) |-> found[i].path]

\* The import specifiers extractImports finds in the text of each file, by
\* the real path of the file.
LibSelf == <<"proj", "lib", "self.ts">>

RealFiles == {FsNodes[i].path : i \in {j \in 1..Len(FsNodes) : FsNodes[j].kind = "file"}}

BaseContents ==
  [p \in RealFiles |->
     CASE p = <<"proj", "src", "a.ts">> -> << <<".", "b">>, <<"lodash">> >>
       [] p = <<"proj", "src", "b.ts">> -> << <<".", "c">> >>
       [] p = <<"proj", "lib", "main.ts">> ->
            << <<".", "foo">>, <<".", "utils">>, <<"@", "a">> >>
       [] p = <<"proj", "lib", "utils", "index.ts">> -> << <<"..", "main">> >>
       [] p = <<"ext", "e.ts">> -> << <<".", "main">> >>
       [] OTHER -> <<>>]

SelfImportChoices ==
  { <<>>, << <<".", "self">> >>, << <<".", "self.ts">> >>,
    << <<".", "main">>, <<".", "self">> >> }

\* the table when the text of lib/self.ts holds the imports selfImports
Contents(selfImports) == [BaseContents EXCEPT ![LibSelf] = selfImports]

\* extractImports(fs.readFileSync(file)); a file that cannot be read is
\* skipped by the caller
ReadImports(file, contents) ==
  IF IsFile(file) THEN contents[realpathSync(file)] ELSE <<>>

\* index.importedBy.get(resolved).add(file), after set(resolved, new Set())
\* when the key is new
AddImporter(importedBy, resolved, file) ==
  IF resolved \in DOMAIN importedBy
  THEN [importedBy EXCEPT ![resolved] = @ \cup {file}]
  ELSE importedBy @@ (resolved :> {file})

RECURSIVE IndexImports(_, _, _, _)
IndexImports(importedBy, file, importPaths, project) ==
  IF importPaths = <<>> THEN importedBy
  ELSE LET resolved == resolveImportPath(Head(importPaths), file, project) IN
       IndexImports(IF resolved # null
                    THEN AddImporter(importedBy, resolved, file)
                    ELSE importedBy,
                    file, Tail(importPaths), project)

RECURSIVE IndexFiles(_, _, _, _)
IndexFiles(importedBy, allFiles, project, contents) ==
  IF allFiles = <<>> THEN importedBy
  ELSE IndexFiles(IndexImports(importedBy, Head(allFiles),
                               ReadImports(Head(allFiles), contents), project),
                  Tail(allFiles), project, contents)

\* the importedBy map of the index
buildImportIndex(project, contents) ==
  IndexFiles(<<>>, glob(project), project, contents)

\* getDependentsFromIndex without the check against the queried files
getDependentsFromIndex_KeepsQueried(files, importedBy) ==
  UNION {IF f \in DOMAIN importedBy THEN importedBy[f] ELSE {} : f \in Range(files)}

\* the members of the returned array
getDependentsFromIndex(files, importedBy) ==
  UNION {IF f \in DOMAIN importedBy THEN importedBy[f] \ Range(files) ELSE {} :
           f \in Range(files)}

Specifiers ==
  { <<".", "foo">>, <<".", "utils">>, <<".", "self">>, <<".", "self.ts">>,
    <<".", "main">>, <<".", "missing">>, <<"..", "src", "a">>,
    <<"..", "src", "extlink">>, <<"..", "..", "ext", "e">>, <<"@", "a">>,
    <<"", "lib", "main.ts">>, <<"lodash">>, <<"@scope", "pkg">> }

FromFiles == { <<"proj", "lib", "main.ts">>, <<"proj", "src", "a.ts">> }

QueryFiles ==
  { LibSelf, <<"proj", "lib", "main.ts">>, <<"proj", "src", "b.ts">>,
    <<"proj", "lib", "utils", "index.ts">> }

QueryLists == UNION {[1..n -> QueryFiles] : n \in 0..MaxQuery}

InitImports ==
  /\ IdleBundler
  /\ IdleServices
  /\ compare = NoCompare
  /\ redaction = NoRedaction
  /\ \E s \in Specifiers, f \in FromFiles, c \in SelfImportChoices, q \in QueryLists :
        imports = [step |-> 0, importPath |-> s, fromFile |-> f,
                   selfImports |-> c, files |-> q, resolved |-> null, importedBy |-> <<>>,
                   dependents |-> {}]

\* resolveImportPath(importPath, fromFile, projectPath)
Resolve ==
  /\ imports.step = 0
  /\ imports' = [imports EXCEPT
                   !.step = 1,
                   !.resolved = resolveImportPath(imports.importPath,
                                                  imports.fromFile, projectPath)]
  /\ UNCHANGED <<serviceVars, bundlerVars, compare, redaction>>

\* buildImportIndex(projectPath)
BuildIndex ==
  /\ imports.step = 1
  /\ imports' = [imports EXCEPT
                   !.step = 2,
                   !.importedBy = buildImportIndex(projectPath, Contents(imports.selfImports))]
  /\ UNCHANGED <<serviceVars, bundlerVars, compare, redaction>>

\* getDependentsFromIndex(files, index)
QueryDependents ==
  /\ imports.step = 2
  /\ imports' = [imports EXCEPT
                   !.step = 3,
                   !.dependents = getDependentsFromIndex(imports.files,
                                                         imports.importedBy)]
  /\ UNCHANGED <<serviceVars, bundlerVars, compare, redaction>>

NextImports == Resolve \/ BuildIndex \/ QueryDependents

SpecImports == InitImports /\ [][NextImports]_vars

\* the files of the project that import themselves
SelfImporters ==
  {f \in Range(glob(projectPath)) :
     \E k \in 1..Len(ReadImports(f, Contents(imports.selfImports))) :
        resolveImportPath(ReadImports(f, Contents(imports.selfImports))[k], f, projectPath) = f}

(***************************************************************************)
(* C19 as stated: in the index that buildImportIndex builds no file is a   *)
(* member of its own importedBy set, also when a file imports itself.      *)
(***************************************************************************)
C19_NoFileInOwnImportedBy ==
  imports.step >= 2 =>
    \A f \in DOMAIN imports.importedBy : f \notin imports.importedBy[f]

(***************************************************************************)
(* C19 as amended: getDependentsFromIndex never returns one of the files   *)
(* it was asked about, so no file is reported as its own dependent; the    *)
(* index itself does record a file that imports itself in its own          *)
(* importedBy set.                                                         *)
(***************************************************************************)
C19_NoFileItsOwnDependent ==
  /\ imports.step >= 2 =>
       \A f \in SelfImporters :
          f \in DOMAIN imports.importedBy /\ f \in imports.importedBy[f]
  /\ imports.step = 3 => imports.dependents \cap Range(imports.files) = {}

\* a file that imports itself was asked about together with another file:
\* the index holds it in its own set and the answer leaves it out
C19_Witness ==
  /\ imports.step = 3
  /\ LibSelf \in Range(imports.files)
  /\ LibSelf \in SelfImporters
  /\ LibSelf \in imports.importedBy[LibSelf]
  /\ LibSelf \notin imports.dependents
  /\ imports.dependents # {}

\* the candidates of the import that was resolved, and those that exist as
\* regular files
ProbedCandidates ==
  Candidates(TargetPath(imports.importPath, imports.fromFile, projectPath))

FileCandidates == {i \in 1..Len(ProbedCandidates) : IsFile(ProbedCandidates[i])}

InsideCandidates ==
  {i \in FileCandidates : isWithinProject(ProbedCandidates[i], projectPath)}

Least(S) == CHOOSE i \in S : \A j \in S : i <= j

(***************************************************************************)
(* C20 as stated: resolveImportPath returns the first candidate, in        *)
(* probing order, that exists and resolves to a path inside the project    *)
(* root (null when there is none); a candidate that resolves outside the   *)
(* project is never returned.                                              *)
(***************************************************************************)
C20_FirstInsideCandidateWins ==
  (imports.step >= 1 /\ IsLocalImport(imports.importPath)) =>
    /\ imports.resolved =
         IF InsideCandidates = {} THEN null
         ELSE ProbedCandidates[Least(InsideCandidates)]
    /\ imports.resolved # null => isWithinProject(imports.resolved, projectPath)

(***************************************************************************)
(* C20 as amended: resolveImportPath stops at the first candidate, in      *)
(* probing order, that exists as a regular file; it returns that candidate *)
(* when it resolves to a path inside the project root and null when it     *)
(* resolves outside, without probing the candidates after it; a candidate  *)
(* that resolves outside the project is never returned.                    *)
(***************************************************************************)
C20_FirstFileCandidateDecides ==
  (imports.step >= 1 /\ IsLocalImport(imports.importPath)) =>
    /\ imports.resolved =
         IF FileCandidates = {} THEN null
         ELSE IF Least(FileCandidates) \in InsideCandidates
              THEN ProbedCandidates[Least(FileCandidates)]
              ELSE null
    /\ imports.resolved # null => isWithinProject(imports.resolved, projectPath)

\* the first candidate that is a file lies outside the project, a later
\* one inside, and the import was left unresolved
C20_Witness ==
  /\ imports.step >= 1
  /\ IsLocalImport(imports.importPath)
  /\ FileCandidates # {}
  /\ Least(FileCandidates) \notin InsideCandidates
  /\ InsideCandidates # {}
  /\ imports.resolved = null

(***************************************************************************)
(* The sliding window rate limiter, src/security/rate-limiter.ts.  Times   *)
(* are milliseconds of Date.now(), which starts above zero and never runs  *)
(* backwards; the windows are scaled down from the default 60000 ms.       *)
(***************************************************************************)
MaxClock == 5

MaxRecorded == 4

WindowChoices == {2, 3}

MaxRequestsChoices == {0, 1, 2}

\* pruneOldTimestamps with a window one millisecond short
pruneOldTimestamps_ShortWindow(self, now) ==
  [self EXCEPT !.timestamps =
     SelectSeq(self.timestamps, LAMBDA t : t > now - self.windowMs + 1)]

\* pruneOldTimestamps(), lines 118-121, when Date.now() reads now
pruneOldTimestamps(self, now) ==
  [self EXCEPT !.timestamps =
     SelectSeq(self.timestamps, LAMBDA t : t > now - self.windowMs)]

\* canProceed(), lines 36-39: the pruned limiter and the answer
canProceed(self, now) ==
  LET Answer(pruned) ==
        [self |-> pruned,
         allowed |-> Len(pruned.timestamps) < pruned.maxRequests]
  IN  Answer(pruneOldTimestamps(self, now))

\* recordRequest(), lines 44-46
recordRequest(self, now) ==
  [self EXCEPT !.timestamps = Append(self.timestamps, now)]

\* getRetryAfterMs(), lines 77-97; an empty list has no first timestamp and
\* a first timestamp of 0 is falsy
getRetryAfterMs(self, now) ==
  LET Answer(pruned) ==
        [self |-> pruned,
         ms |-> IF Len(pruned.timestamps) < pruned.maxRequests THEN 0
                ELSE IF pruned.timestamps = <<>> THEN 0
                ELSE IF pruned.timestamps[1] = 0 THEN 0
                ELSE Max(0, pruned.timestamps[1] + pruned.windowMs - now)]
  IN  Answer(pruneOldTimestamps(self, now))

\* checkAndRecord that records the rejected request too
checkAndRecord_RecordsRejected(self, now, later) ==
  LET Rejected(retry) ==
        [self |-> recordRequest(retry.self, later),
         status |-> [allowed |-> FALSE, remaining |-> 0,
                     retryAfterMs |-> retry.ms]]
      Checked(pruned, remaining) ==
        IF remaining > 0
        THEN [self |-> recordRequest(pruned, later),
              status |-> [allowed |-> TRUE, remaining |-> remaining - 1,
                          retryAfterMs |-> null]]
        ELSE Rejected(getRetryAfterMs(pruned, later))
      Pruned(pruned) ==
        Checked(pruned, Max(0, pruned.maxRequests - Len(pruned.timestamps)))
  IN  Pruned(pruneOldTimestamps(self, now))

\* checkAndRecord(), lines 52-67: Date.now() reads now when the list is
\* pruned and later when the request is pushed or the retry time computed
checkAndRecord(self, now, later) ==
  LET Rejected(retry) ==
        [self |-> retry.self,
         status |-> [allowed |-> FALSE, remaining |-> 0,
                     retryAfterMs |-> retry.ms]]
      Checked(pruned, remaining) ==
        IF remaining > 0
        THEN [self |-> recordRequest(pruned, later),
              status |-> [allowed |-> TRUE, remaining |-> remaining - 1,
                          retryAfterMs |-> null]]
        ELSE Rejected(getRetryAfterMs(pruned, later))
      Pruned(pruned) ==
        Checked(pruned, Max(0, pruned.maxRequests - Len(pruned.timestamps)))
  IN  Pruned(pruneOldTimestamps(self, now))

NoStatus ==
  [op |-> "none", allowed |-> FALSE, remaining |-> 0, retryAfterMs |-> null,
   due |-> FALSE, afterRejections |-> FALSE]

\* new SlidingWindowRateLimiter(config), lines 28-31
InitLimiter ==
  /\ IdleBundler
  /\ compare = NoCompare
  /\ redaction = NoRedaction
  /\ imports = NoImports
  /\ \E w \in WindowChoices, m \in MaxRequestsChoices :
        limiter = [step |-> 1,
                   self |-> [timestamps |-> <<>>, windowMs |-> w,
                             maxRequests |-> m],
                   now |-> 1,            \* what Date.now() reads
                   permitted |-> FALSE,  \* canProceed said yes, nothing recorded since
                   unchecked |-> FALSE,  \* a request was recorded without a yes
                   recorded |-> <<>>,    \* every timestamp ever pushed
                   promised |-> {},      \* retry times given since the last push
                   rejectedAgain |-> FALSE,
                   last |-> NoStatus]
  /\ review = NoReview
  /\ summary = NoSummary
  /\ consensus = NoConsensus
  /\ calls = NoCalls

\* a millisecond passes
AdvanceTime ==
  /\ limiter.step = 1
  /\ limiter.now < MaxClock
  /\ limiter' = [limiter EXCEPT !.now = @ + 1]
  /\ UNCHANGED <<bundlerVars, compare, redaction, imports, review, summary, consensus, calls>>

\* a caller asks canProceed()
CanProceed ==
  /\ limiter.step = 1
  /\ \E out \in {canProceed(limiter.self, limiter.now)} :
        limiter' = [limiter EXCEPT
                      !.self = out.self,
                      !.permitted = out.allowed,
                      !.last = [NoStatus EXCEPT !.op = "canProceed",
                                                !.allowed = out.allowed]]
  /\ UNCHANGED <<bundlerVars, compare, redaction, imports, review, summary, consensus, calls>>

\* a caller calls recordRequest(), which pushes whatever canProceed said
RecordRequest ==
  /\ limiter.step = 1
  /\ Len(limiter.recorded) < MaxRecorded
  /\ limiter' = [limiter EXCEPT
                   !.self = recordRequest(limiter.self, limiter.now),
                   !.permitted = FALSE,
                   !.unchecked = @ \/ ~limiter.permitted,
                   !.recorded = Append(@, limiter.now),
                   !.promised = {},
                   !.rejectedAgain = FALSE,
                   !.last = [NoStatus EXCEPT !.op = "recordRequest"]]
  /\ UNCHANGED <<bundlerVars, compare, redaction, imports, review, summary, consensus, calls>>

\* the limiter and what is known of it once checkAndRecord has answered out
AfterCheckAndRecord(out, later) ==
  [limiter EXCEPT
     !.self = out.self,
     !.now = later,
     !.permitted = FALSE,
     !.recorded = IF out.status.allowed THEN Append(@, later) ELSE @,
     !.promised = IF out.status.allowed THEN {}
                  ELSE @ \cup {later + out.status.retryAfterMs},
     !.rejectedAgain = ~out.status.allowed /\ limiter.promised # {},
     !.last = [op |-> "checkAndRecord",
               allowed |-> out.status.allowed,
               remaining |-> out.status.remaining,
               retryAfterMs |-> out.status.retryAfterMs,
               due |-> \E p \in limiter.promised : limiter.now >= p,
               afterRejections |-> limiter.rejectedAgain]]

\* a caller calls checkAndRecord()
CheckAndRecord ==
  /\ limiter.step = 1
  /\ \E later \in {limiter.now, limiter.now + 1} :
       /\ later <= MaxClock
       /\ \E out \in {checkAndRecord(limiter.self, limiter.now, later)} :
            limiter' = AfterCheckAndRecord(out, later)
  /\ UNCHANGED <<bundlerVars, compare, redaction, imports, review, summary, consensus, calls>>

NextLimiter == AdvanceTime \/ CanProceed \/ RecordRequest \/ CheckAndRecord

SpecLimiter == InitLimiter /\ [][NextLimiter]_vars

\* the requests recorded in the windowMs milliseconds that start at s
RecordedInWindow(s) ==
  {i \in DOMAIN limiter.recorded :
     limiter.recorded[i] \in s..(s + limiter.self.windowMs - 1)}

(***************************************************************************)
(* C24: as long as every request was recorded after the limiter allowed it *)
(* (checkAndRecord, or recordRequest after a canProceed that said yes with *)
(* nothing recorded in between), no window of windowMs milliseconds holds  *)
(* more than maxRequests recorded requests.                                *)
(***************************************************************************)
C24_WindowNeverExceedsMax ==
  (limiter.step = 1 /\ ~limiter.unchecked) =>
    \A s \in 1..MaxClock :
       Cardinality(RecordedInWindow(s)) <= limiter.self.maxRequests

\* the limiter has let requests through by both routes, more of them than
\* one window takes, and has just turned one down
C24_Witness ==
  /\ limiter.step = 1
  /\ ~limiter.unchecked
  /\ limiter.self.maxRequests >= 1
  /\ Len(limiter.recorded) > limiter.self.maxRequests
  /\ Len(limiter.self.timestamps) < Len(limiter.recorded)
  /\ limiter.last.op = "checkAndRecord"
  /\ ~limiter.last.allowed

(***************************************************************************)
(* C25: when checkAndRecord has rejected a request with retryAfterMs = r,  *)
(* a checkAndRecord made r milliseconds later, with no request recorded in *)
(* between, is allowed, however many requests were rejected in between.    *)
(***************************************************************************)
C25_RetryTimeIsHonoured ==
  (limiter.step = 1 /\ limiter.last.op = "checkAndRecord" /\ limiter.last.due) =>
    limiter.last.allowed

(***************************************************************************)
(* C25 as amended: for a limiter with maxRequests of at least 1 on which   *)
(* every request was recorded after the limiter allowed it, when           *)
(* checkAndRecord has rejected a request with retryAfterMs = r, a          *)
(* checkAndRecord made r milliseconds later, with no request recorded in   *)
(* between, is allowed, however many requests were rejected in between.    *)
(***************************************************************************)
C25_RetryTimeIsHonouredWhenRequestsAreAllowed ==
  (/\ limiter.step = 1
   /\ limiter.self.maxRequests >= 1
   /\ ~limiter.unchecked
   /\ limiter.last.op = "checkAndRecord"
   /\ limiter.last.due) =>
    limiter.last.allowed

\* a request was rejected, then another, and the one made at the promised
\* time went through
C25_Witness ==
  /\ limiter.step = 1
  /\ limiter.self.maxRequests >= 1
  /\ ~limiter.unchecked
  /\ limiter.last.op = "checkAndRecord"
  /\ limiter.last.due
  /\ limiter.last.afterRejections
  /\ limiter.last.allowed

(***************************************************************************)
(* executeReview, src/tools/review.ts (part_001, lines 407-514).  A call   *)
(* runs to its first await (bundleContext), from there to the second       *)
(* (provider.review) and from there to its end; the calls come one after   *)
(* the other and share the limiter of getRateLimiter().  What the          *)
(* collaborators answer is an input: validateProjectPath, bundleContext,   *)
(* createProvider, the provider and the two writers each succeed or throw. *)
(***************************************************************************)
ReviewInputs ==
  [dryRun : BOOLEAN, validPath : BOOLEAN, hasKey : BOOLEAN]

NoCall ==
  [input |-> [dryRun |-> FALSE, validPath |-> TRUE, hasKey |-> TRUE],
   outcome |-> "none",       \* running, preview, returned or threw
   failedAt |-> "none",      \* the step that threw
   limiter |-> "notAsked",   \* notAsked, allowed or rejected
   sent |-> FALSE,           \* provider.review was called with the context
   reviewWritten |-> FALSE,
   manifestWritten |-> FALSE]

\* executeReview that takes a dry run for a real one
ReturnsPreview_Never(input) == FALSE

\* lines 434-446: if (input.dryRun) return the preview
ReturnsPreview(input) == input.dryRun

\* executeReview that goes on whatever the limiter said
RateLimited_Never(status) == FALSE

\* lines 451-456: if (!rateLimitStatus.allowed) throw
RateLimited(status) == ~status.allowed

\* getRateLimiter(), lines 132-140, on the first call of the process
InitReview ==
  /\ IdleBundler
  /\ compare = NoCompare
  /\ redaction = NoRedaction
  /\ imports = NoImports
  /\ \E w \in WindowChoices, m \in MaxRequestsChoices :
        limiter = [step |-> 1,
                   self |-> [timestamps |-> <<>>, windowMs |-> w,
                             maxRequests |-> m],
                   now |-> 1, permitted |-> FALSE, unchecked |-> FALSE,
                   recorded |-> <<>>, promised |-> {},
                   rejectedAgain |-> FALSE, last |-> NoStatus]
  /\ review = [step |-> 1, pc |-> "idle",
               providerCalls |-> <<>>,   \* when provider.review was called
               reviewFiles |-> FALSE,    \* a review file has been written
               manifests |-> FALSE,      \* an egress manifest has been written
               last |-> NoCall]
  /\ summary = NoSummary
  /\ consensus = NoConsensus
  /\ calls = NoCalls

\* lines 410-428: validateProjectPath, loadConfig, the call of bundleContext
BeginReview ==
  /\ review.step = 1
  /\ review.pc = "idle"
  /\ \E input \in ReviewInputs :
        review' =
          [review EXCEPT
             !.pc = IF input.validPath THEN "bundling" ELSE "idle",
             !.last = [NoCall EXCEPT
                         !.input = input,
                         !.outcome = IF input.validPath THEN "running" ELSE "threw",
                         !.failedAt = IF input.validPath THEN "none" ELSE "validate"]]
  /\ UNCHANGED <<bundlerVars, compare, redaction, imports, limiter, summary, consensus, calls>>

\* bundleContext rejects: executeReview rejects with it
BundleFails ==
  /\ review.step = 1
  /\ review.pc = "bundling"
  /\ review' = [review EXCEPT !.pc = "idle", !.last.outcome = "threw",
                              !.last.failedAt = "bundle"]
  /\ UNCHANGED <<bundlerVars, compare, redaction, imports, limiter, summary, consensus, calls>>

\* lines 431-446: the summary and the return of a dry run
Preview ==
  /\ review.step = 1
  /\ review.pc = "bundling"
  /\ ReturnsPreview(review.last.input)
  /\ review' = [review EXCEPT !.pc = "idle", !.last.outcome = "preview"]
  /\ UNCHANGED <<bundlerVars, compare, redaction, imports, limiter, summary, consensus, calls>>

\* lines 448-482: the limiter, createProvider and the call of the provider
CallProvider ==
  /\ review.step = 1
  /\ review.pc = "bundling"
  /\ ~ReturnsPreview(review.last.input)
  /\ \E later \in {limiter.now, limiter.now + 1} :
       /\ later <= MaxClock
       /\ \E out \in {checkAndRecord(limiter.self, limiter.now, later)} :
            /\ limiter' = [limiter EXCEPT !.self = out.self, !.now = later]
            /\ review' =
                 IF RateLimited(out.status)
                 THEN [review EXCEPT
                         !.pc = "idle",
                         !.last.limiter = "rejected",
                         !.last.outcome = "threw",
                         !.last.failedAt = "rateLimit"]
                 ELSE IF ~review.last.input.hasKey
                 THEN [review EXCEPT
                         !.pc = "idle",
                         !.last.limiter =
                            IF out.status.allowed THEN "allowed" ELSE "rejected",
                         !.last.outcome = "threw",
                         !.last.failedAt = "createProvider"]
                 ELSE [review EXCEPT
                         !.pc = "awaiting",
                         !.last.limiter =
                            IF out.status.allowed THEN "allowed" ELSE "rejected",
                         !.last.sent = TRUE,
                         !.providerCalls = Append(@, later)]
  /\ UNCHANGED <<bundlerVars, compare, redaction, imports, summary, consensus, calls>>

\* lines 474-514: the provider answers or fails, then writeReview and
\* writeEgressManifest, each of which may throw
ProviderSettles ==
  /\ review.step = 1
  /\ review.pc = "awaiting"
  /\ \E failedAt \in {"provider", "writeReview", "writeEgressManifest", "none"} :
        review' =
          [review EXCEPT
             !.pc = "idle",
             !.reviewFiles = @ \/ failedAt \in {"writeEgressManifest", "none"},
             !.manifests = @ \/ failedAt = "none",
             !.last.reviewWritten = failedAt \in {"writeEgressManifest", "none"},
             !.last.manifestWritten = failedAt = "none",
             !.last.failedAt = failedAt,
             !.last.outcome = IF failedAt = "none" THEN "returned" ELSE "threw"]
  /\ UNCHANGED <<bundlerVars, compare, redaction, imports, limiter, summary, consensus, calls>>

NextReview ==
  \/ AdvanceTime
  \/ BeginReview
  \/ BundleFails
  \/ Preview
  \/ CallProvider
  \/ ProviderSettles

SpecReview == InitReview /\ [][NextReview]_vars

(***************************************************************************)
(* C22: a call of executeReview with dryRun true that gets past            *)
(* validateProjectPath and bundleContext returns the preview; it does not  *)
(* ask the limiter, does not call the provider and writes neither a review *)
(* file nor an egress manifest.                                            *)
(***************************************************************************)
C22_DryRunOnlyPreviews ==
  (review.step = 1 /\ review.last.input.dryRun /\ review.last.outcome # "none") =>
    /\ review.pc \in {"idle", "bundling"}
    /\ review.pc = "idle" =>
         \/ review.last.outcome = "preview"
         \/ review.last.outcome = "threw"
              /\ review.last.failedAt \in {"validate", "bundle"}
    /\ review.last.limiter = "notAsked"
    /\ ~review.last.sent
    /\ ~review.last.reviewWritten
    /\ ~review.last.manifestWritten

\* a dry run has returned its preview after an earlier call had written
\* its files
C22_Witness ==
  /\ review.step = 1
  /\ review.last.input.dryRun
  /\ review.pc = "idle"
  /\ review.last.outcome = "preview"
  /\ review.reviewFiles
  /\ review.manifests
  /\ ~review.last.sent

\* the calls of provider.review in the windowMs milliseconds that start at s
ProviderCallsInWindow(s) ==
  {i \in DOMAIN review.providerCalls :
     review.providerCalls[i] \in s..(s + limiter.self.windowMs - 1)}

(***************************************************************************)
(* C28: over any sequence of executeReview calls the provider is called    *)
(* only in a call the limiter allowed; a call the limiter rejected throws  *)
(* without calling the provider and without writing a review file or a     *)
(* manifest; and no window of windowMs milliseconds holds more than        *)
(* maxRequests provider calls.                                             *)
(***************************************************************************)
C28_ProviderOnlyAfterLimiter ==
  review.step = 1 =>
    /\ review.last.sent => review.last.limiter = "allowed"
    /\ review.last.limiter = "rejected" =>
         /\ review.pc = "idle"
         /\ review.last.outcome = "threw"
         /\ review.last.failedAt = "rateLimit"
         /\ ~review.last.sent
         /\ ~review.last.reviewWritten
         /\ ~review.last.manifestWritten
    /\ \A s \in 1..MaxClock :
         Cardinality(ProviderCallsInWindow(s)) <= limiter.self.maxRequests

\* the provider has been called more often than one window allows, a dry
\* run went by, and the call just made was turned down by the limiter
C28_Witness ==
  /\ review.step = 1
  /\ limiter.self.maxRequests >= 1
  /\ Len(review.providerCalls) > limiter.self.maxRequests
  /\ review.last.limiter = "rejected"
  /\ review.last.outcome = "threw"
  /\ review.reviewFiles

(***************************************************************************)
(* C30: once a call of executeReview has sent the bundled context to the   *)
(* provider, the call does not end without an egress manifest written,     *)
(* also when the provider call or writeReview fails afterwards.            *)
(***************************************************************************)
C30_SentContextLeavesManifest ==
  (review.step = 1 /\ review.pc = "idle" /\ review.last.sent) =>
    review.last.manifestWritten

(***************************************************************************)
(* C23: the egress summary records exactly the files of the bundle: every  *)
(* entry of bundle.files has its path in exactly one of projectFilePaths   *)
(* and externalFilePaths, the two lists hold no other path and no entry    *)
(* twice, and every entry of omittedFiles appears in blockedFiles with its *)
(* reason.                                                                 *)
(***************************************************************************)
C23_SummaryRecordsExactlyTheBundle ==
  pc = "summarized" =>
    /\ \A i \in 1..Len(bundle.files) :
         bundle.files[i].path \in Range(summary.projectFilePaths)
           <=> bundle.files[i].path \notin Range(summary.externalFilePaths)
    /\ Range(summary.projectFilePaths) \cup Range(summary.externalFilePaths)
         = {bundle.files[i].path : i \in 1..Len(bundle.files)}
    /\ Len(summary.projectFilePaths) + Len(summary.externalFilePaths)
         = Len(bundle.files)
    /\ Len(summary.blockedFiles) = Len(bundle.omittedFiles)
    /\ \A i \in 1..Len(bundle.omittedFiles) :
         /\ summary.blockedFiles[i].path = bundle.omittedFiles[i].path
         /\ summary.blockedFiles[i].reason = bundle.omittedFiles[i].reason

\* a bundle with files inside the project, a file outside it and omitted
\* files has been summarised
C23_Witness ==
  /\ pc = "summarized"
  /\ summary.projectFilePaths # <<>>
  /\ summary.externalFilePaths # <<>>
  /\ Len(summary.blockedFiles) >= 2
  /\ \E i, j \in 1..Len(summary.blockedFiles) :
        summary.blockedFiles[i].reason # summary.blockedFiles[j].reason

(***************************************************************************)
(* C27: no path of bundle.files is also in omittedFiles with the reason    *)
(* budget_exceeded, and no budget warning counts a file that was in fact   *)
(* admitted: the omissions counted for a category are omissions of files   *)
(* that are not in the bundle.                                             *)
(***************************************************************************)
C27_AdmittedNeverReportedOverBudget ==
  /\ \A i \in 1..Len(bundle.omittedFiles) :
        bundle.omittedFiles[i].reason = "budget_exceeded" =>
          bundle.omittedFiles[i].path \notin FilePaths
  /\ pc \in {"done", "summarized"} =>
       \A w \in Range(bundle.budgetWarnings) :
          w.omittedCount =
            Cardinality({i \in 1..Len(bundle.omittedFiles) :
                           /\ bundle.omittedFiles[i].category = w.category
                           /\ bundle.omittedFiles[i].reason = "budget_exceeded"
                           /\ bundle.omittedFiles[i].path \notin FilePaths})

\* the patterns of SECRET_PATTERNS that match somewhere in a text
StillMatching(text) ==
  {n \in 1..Len(SECRET_PATTERNS) : CountMatches(SECRET_PATTERNS[n], text) > 0}

(***************************************************************************)
(* C29: what the bundle hands on holds no substring that a secret pattern  *)
(* still matches: neither the content of a file entry, which readFileEntry *)
(* makes from the text on disk or in the session cache, nor the            *)
(* conversation context made from the messages of the session.             *)
(***************************************************************************)
C29_NothingLeftToRedact ==
  /\ redaction.step >= 1 => StillMatching(redaction.once.content) = {}
  /\ redaction.formatted => StillMatching(redaction.conversationContext) = {}

(***************************************************************************)
(* getConsensusReview, src/providers/consensus.ts (part_011, lines         *)
(* 135-196).  An optional value is a sequence of at most one element: <<>> *)
(* is undefined.  The two provider calls are started together and settle   *)
(* in any order.                                                           *)
(***************************************************************************)
ApiKeyChoices == {<<>>, <<"">>, <<"test-key">>}

GeminiModels == {"gemini-2.0-flash-exp", "gemini-1.5-pro"}

OpenAIModels == {"gpt-4o", "gpt-4o-mini"}

\* !config.geminiApiKey: undefined and the empty string are falsy
Missing(apiKey) == apiKey = <<>> \/ apiKey[1] = ""

\* what a provider's review(request) can settle to
Settlements(model) ==
  {[status |-> "fulfilled",
    value |-> [review |-> "Looks good", model |-> model, tokensUsed |-> <<500>>]],
   [status |-> "fulfilled",
    value |-> [review |-> "Needs work", model |-> model, tokensUsed |-> <<>>]],
   [status |-> "rejected", reason |-> [isError |-> TRUE, message |-> "API error"]],
   [status |-> "rejected", reason |-> [isError |-> FALSE, text |-> "timeout"]]}

NotCalled == [status |-> "notCalled"]

Pending == [status |-> "pending"]

IsSettled(result) == result.status \in {"fulfilled", "rejected"}

\* reason instanceof Error ? reason.message : String(reason)
ErrorMessage(reason) == IF reason.isError THEN reason.message ELSE reason.text

\* lines 168-192: a settled result in the response format
ToResponse(result, model) ==
  IF result.status = "fulfilled"
  THEN [review |-> result.value.review, model |-> result.value.model,
        tokensUsed |-> result.value.tokensUsed, error |-> <<>>]
  ELSE [review |-> "", model |-> model, tokensUsed |-> <<>>,
        error |-> <<ErrorMessage(result.reason)>>]

\* Promise.all in the place of Promise.allSettled: one failure rejects the call
Settle_All(geminiResult, openaiResult, config) ==
  IF geminiResult.status = "rejected" \/ openaiResult.status = "rejected"
  THEN [status |-> "rejected"]
  ELSE [status |-> "resolved",
        value |-> [gemini |-> ToResponse(geminiResult, config.geminiModel),
                   openai |-> ToResponse(openaiResult, config.openaiModel)]]

\* lines 162-195: what the call resolves to once both results are in
Settle(geminiResult, openaiResult, config) ==
  [status |-> "resolved",
   value |-> [gemini |-> ToResponse(geminiResult, config.geminiModel),
              openai |-> ToResponse(openaiResult, config.openaiModel)]]

InitConsensus ==
  /\ IdleBundler
  /\ compare = NoCompare
  /\ redaction = NoRedaction
  /\ imports = NoImports
  /\ limiter = NoLimiter
  /\ review = NoReview
  /\ summary = NoSummary
  /\ calls = NoCalls
  /\ \E gk \in ApiKeyChoices, ok \in ApiKeyChoices,
        gm \in GeminiModels, om \in OpenAIModels :
        consensus = [step |-> 1, pc |-> "idle",
                     config |-> [geminiApiKey |-> gk, openaiApiKey |-> ok,
                                 geminiModel |-> gm, openaiModel |-> om],
                     gemini |-> NotCalled, openai |-> NotCalled,
                     outcome |-> [status |-> "none"]]

\* lines 139-166: the two key checks, then both review calls are started
getConsensusReview ==
  /\ consensus.step = 1
  /\ consensus.pc = "idle"
  /\ consensus' =
       IF Missing(consensus.config.geminiApiKey)
          \/ Missing(consensus.config.openaiApiKey)
       THEN [consensus EXCEPT !.pc = "rejected",
                              !.outcome = [status |-> "rejected"]]
       ELSE [consensus EXCEPT !.pc = "waiting", !.gemini = Pending,
                              !.openai = Pending]
  /\ UNCHANGED <<bundlerVars, compare, redaction, imports, limiter, review, summary, calls>>

\* geminiProvider.review(request) settles
GeminiSettles ==
  /\ consensus.step = 1
  /\ consensus.pc = "waiting"
  /\ consensus.gemini = Pending
  /\ \E r \in Settlements(consensus.config.geminiModel) :
        consensus' = [consensus EXCEPT !.gemini = r]
  /\ UNCHANGED <<bundlerVars, compare, redaction, imports, limiter, review, summary, calls>>

\* openaiProvider.review(request) settles
OpenAISettles ==
  /\ consensus.step = 1
  /\ consensus.pc = "waiting"
  /\ consensus.openai = Pending
  /\ \E r \in Settlements(consensus.config.openaiModel) :
        consensus' = [consensus EXCEPT !.openai = r]
  /\ UNCHANGED <<bundlerVars, compare, redaction, imports, limiter, review, summary, calls>>

\* Promise.allSettled resolves when both have settled; lines 168-195
ConsensusReturns ==
  /\ consensus.step = 1
  /\ consensus.pc = "waiting"
  /\ IsSettled(consensus.gemini)
  /\ IsSettled(consensus.openai)
  /\ \E out \in {Settle(consensus.gemini, consensus.openai, consensus.config)} :
        consensus' = [consensus EXCEPT !.pc = out.status, !.outcome = out]
  /\ UNCHANGED <<bundlerVars, compare, redaction, imports, limiter, review, summary, calls>>

NextConsensus ==
  getConsensusReview \/ GeminiSettles \/ OpenAISettles \/ ConsensusReturns

SpecConsensus == InitConsensus /\ [][NextConsensus]_vars

\* the response reports what the provider's call settled to
Reports(response, result) ==
  IF result.status = "fulfilled"
  THEN /\ response.review = result.value.review
       /\ response.error = <<>>
  ELSE /\ response.review = ""
       /\ response.error = <<ErrorMessage(result.reason)>>

(***************************************************************************)
(* C26: getConsensusReview calls both providers and resolves only when     *)
(* both calls have settled; each provider's part of the result is its      *)
(* review when its call succeeded and an empty review with the error       *)
(* message when it failed, whatever the other did; the call rejects only   *)
(* when an API key is missing, and then no provider has been called.       *)
(***************************************************************************)
C26_BothSettleAndFailuresAreReported ==
  consensus.step = 1 =>
    /\ consensus.pc = "waiting" =>
         consensus.gemini # NotCalled /\ consensus.openai # NotCalled
    /\ consensus.pc = "resolved" =>
         /\ IsSettled(consensus.gemini)
         /\ IsSettled(consensus.openai)
         /\ Reports(consensus.outcome.value.gemini, consensus.gemini)
         /\ Reports(consensus.outcome.value.openai, consensus.openai)
    /\ consensus.pc = "rejected" =>
         /\ Missing(consensus.config.geminiApiKey)
              \/ Missing(consensus.config.openaiApiKey)
         /\ consensus.gemini = NotCalled
         /\ consensus.openai = NotCalled
    /\ (IsSettled(consensus.gemini) /\ IsSettled(consensus.openai)) =>
         consensus.pc \in {"waiting", "resolved"}

\* Gemini failed, OpenAI answered, and the call resolved with both parts
C26_Witness ==
  /\ consensus.step = 1
  /\ consensus.pc = "resolved"
  /\ consensus.gemini.status = "rejected"
  /\ consensus.openai.status = "fulfilled"
  /\ consensus.outcome.value.gemini.review = ""
  /\ consensus.outcome.value.gemini.error # <<>>
  /\ consensus.outcome.value.openai.review = "Looks good"

(***************************************************************************)
(* Two bundleContext calls side by side.  bundleContext (bundler.ts,       *)
(* part_003 lines 326-693) keeps bundle, addedFiles, baseBudgets,          *)
(* spilloverBudget, categoryOmissions and modifiedFiles in variables of    *)
(* the call; it gives up control at its two awaits (getDependentsForFiles, *)
(* line 595, and findTypeFilesForFiles, line 637), where another call can  *)
(* run.  A job is what a call is given and what its collaborators answer.  *)
(***************************************************************************)
CallIds == {1, 2}

Jobs ==
  [includeFiles : {<<Rel(<<"src">>)>>, <<Rel(<<"src", "a.ts">>)>>},
   maxTokens : MaxTokensChoices,
   sessionContext : {NoSession,
                     Session(<< <<"proj", "src", "a.ts">> >>, <<>>,
                             << <<"proj", ".env">>, <<"proj", "src", "a.ts">> >>,
                             <<>>, 0)},
   gitChangedFiles : {<<>>, << <<"proj", "src", "c.ts">> >>}]

\* lines 343-412: the variables of a call as bundleContext creates them,
\* with the base budgets of a call without conversation
FreshLocals(job) ==
  [bundle |-> [conversationContext |-> 0, files |-> <<>>, omittedFiles |-> <<>>,
               totalTokens |-> 0, categories |-> [c \in Categories |-> 0],
               budgetWarnings |-> <<>>],
   addedFiles |-> {},
   baseBudgets |-> [c \in Categories |-> BaseBudget(job.maxTokens, c)],
   spilloverBudget |-> 0,
   categoryOmissions |-> [c \in {"explicit", "session"} |-> [count |-> 0, tokens |-> 0]],
   modifiedFiles |-> <<>>]

\* addFilesWithBudget and getBudgetWithSpillover on the variables of a call
AdmitLocal(l, category, files, omittedBefore, skipBoundsCheck) ==
  LET After(st) ==
        [l EXCEPT
           !.bundle = [@ EXCEPT !.files = st.files,
                                !.omittedFiles = st.omittedFiles,
                                !.categories = st.categories,
                                !.totalTokens = st.totalTokens],
           !.addedFiles = st.addedFiles,
           !.categoryOmissions = st.categoryOmissions,
           !.spilloverBudget =
              IF category = "type" THEN @
              ELSE getBudgetWithSpillover(l.baseBudgets[category], @, st.used)]
  IN After(addFilesWithBudget(
             files, category,
             CategoryBudget(category, l.baseBudgets[category], l.spilloverBudget),
             skipBoundsCheck,
             [files |-> l.bundle.files, omittedFiles |-> omittedBefore,
              addedFiles |-> l.addedFiles, used |-> 0,
              categories |-> l.bundle.categories,
              totalTokens |-> l.bundle.totalTokens,
              categoryOmissions |-> l.categoryOmissions, log |-> <<>>]))

\* lines 481-592: explicit, session, git and dependency files, up to the
\* await of getDependentsForFiles
UntilDependents(job) ==
  LET Dependency(l) ==
        AdmitLocal(l, "dependency",
                   IF Len(l.modifiedFiles) > 0
                   THEN SortByTokens(ReadNew(<< <<"proj", "src", "b.ts">> >>,
                                             "dependency", l.addedFiles))
                   ELSE <<>>,
                   l.bundle.omittedFiles, FALSE)
      GitFiles(l, gitFiles) ==
        Dependency(AdmitLocal([l EXCEPT !.modifiedFiles = @ \o Paths(gitFiles)],
                              "git", gitFiles, l.bundle.omittedFiles, FALSE))
      Git(l) == GitFiles(l, ReadNew(job.gitChangedFiles, "git", l.addedFiles))
      SessionFiles(l, r) ==
        Git(AdmitLocal([l EXCEPT !.modifiedFiles = r.modified], "session",
                       r.entries, l.bundle.omittedFiles, FALSE))
      Sessions(l) ==
        SessionFiles(l, ReadSession(
                          IF job.sessionContext.present
                          THEN job.sessionContext.filesWritten
                               \o job.sessionContext.filesEdited
                               \o job.sessionContext.filesRead
                          ELSE <<>>,
                          job.sessionContext))
      Explicit(l, x) ==
        Sessions(AdmitLocal(l, "explicit", x.entries,
                            l.bundle.omittedFiles \o x.omitted, TRUE))
  IN Explicit(FreshLocals(job), ExpandAll(job.includeFiles, FALSE))

\* lines 595-634: dependents and tests, up to the await of
\* findTypeFilesForFiles
UntilTypes(l0, job) ==
  LET Test(l) ==
        AdmitLocal(l, "test",
                   IF Len(l.modifiedFiles) > 0
                   THEN ReadNew(<< <<"proj", "src", "c.ts">> >>, "test", l.addedFiles)
                   ELSE <<>>,
                   l.bundle.omittedFiles, FALSE)
  IN Test(AdmitLocal(l0, "dependent",
                     IF Len(l0.modifiedFiles) > 0
                     THEN SortByTokens(
                            ReadNew(<< <<"proj", "src", "c.ts">>,
                                       <<"proj", "src", "sub", "s.ts">> >>,
                                    "dependent", l0.addedFiles))
                     ELSE <<>>,
                     l0.bundle.omittedFiles, FALSE))

\* lines 637-693: type files, the budget warnings and the return
UntilReturn(l0, job) ==
  LET Warn(l) ==
        [l EXCEPT !.bundle.budgetWarnings =
           Warning("explicit", l.categoryOmissions["explicit"], job.maxTokens)
           \o Warning("session", l.categoryOmissions["session"], job.maxTokens)]
  IN Warn(AdmitLocal(l0, "type",
                     IF Len(l0.modifiedFiles) > 0
                     THEN ReadNew(<< <<"proj", "src", "b.ts">>,
                                     <<"proj", "src", "sub", "s.ts">> >>,
                                  "type", l0.addedFiles)
                     ELSE <<>>,
                     l0.bundle.omittedFiles, FALSE))

\* a bundler whose spillover accumulator is a variable of the module: a
\* call goes on with what the call that ran last left in it
Resume_SharedSpillover(locals, lastSpillover) ==
  [locals EXCEPT !.spilloverBudget = lastSpillover]

\* a call that goes on after an await finds its variables as it left them
Resume(locals, lastSpillover) == locals

InitCalls ==
  /\ IdleBundler
  /\ compare = NoCompare
  /\ redaction = NoRedaction
  /\ imports = NoImports
  /\ limiter = NoLimiter
  /\ review = NoReview
  /\ summary = NoSummary
  /\ consensus = NoConsensus
  /\ \E j1 \in Jobs, j2 \in Jobs :
        calls = [step |-> 1,
                 run |-> [id \in CallIds |->
                            [pc |-> "idle", job |-> IF id = 1 THEN j1 ELSE j2,
                             locals |-> FreshLocals(IF id = 1 THEN j1 ELSE j2),
                             overlapped |-> FALSE]],
                 lastSpillover |-> 0]

\* a call goes from the step at to the step to by the segment next
Advance(id, at, to, next) ==
  /\ calls.step = 1
  /\ calls.run[id].pc = at
  /\ calls' = [calls EXCEPT
                 !.run[id].pc = to,
                 !.run[id].locals = next,
                 !.run[id].overlapped =
                    @ \/ (at # "idle"
                          /\ calls.lastSpillover
                               # calls.run[id].locals.spilloverBudget),
                 !.lastSpillover = next.spilloverBudget]
  /\ UNCHANGED <<bundlerVars, compare, redaction, imports, limiter, review,
                 summary, consensus>>

\* bundleContext is called and runs to its first await
BeginCall ==
  \E id \in CallIds :
     \E l \in {UntilDependents(calls.run[id].job)} :
        Advance(id, "idle", "dependents", l)

\* getDependentsForFiles has answered
ResumeAfterDependents ==
  \E id \in CallIds :
     \E l \in {UntilTypes(Resume(calls.run[id].locals, calls.lastSpillover),
                          calls.run[id].job)} :
        Advance(id, "dependents", "types", l)

\* findTypeFilesForFiles has answered; the bundle is returned
ResumeAfterTypes ==
  \E id \in CallIds :
     \E l \in {UntilReturn(Resume(calls.run[id].locals, calls.lastSpillover),
                           calls.run[id].job)} :
        Advance(id, "types", "done", l)

NextCalls == BeginCall \/ ResumeAfterDependents \/ ResumeAfterTypes

SpecCalls == InitCalls /\ [][NextCalls]_vars

\* the bundle of a call that runs alone
Alone(job) ==
  LET Third(l) == UntilReturn(l, job)
      Second(l) == Third(UntilTypes(l, job))
  IN Second(UntilDependents(job)).bundle

====
